---- MODULE Spec2Model ----
(***************************************************************************)
(* chan-sccp configuration reconciliation engine (src/src/sccp_config.c).  *)
(*                                                                         *)
(* C strings are sequences of one-character strings; a NULL pointer is the *)
(* distinguished sequence NULL.  Option names (v->name, table names) are   *)
(* TLA+ strings compared through FoldName, which plays strcasecmp.         *)
(***************************************************************************)
EXTENDS Integers, Sequences, FiniteSets, TLC

\* ------------------------------------------------------------------ bounds
\* number of (name, value) pairs a config supplier hands to one apply pass
MaxPairs == 2
\* number of apply passes / reloads explored in one behaviour
MaxPasses == 2
MaxCalls == 2
\* sizeof() of the character-array fields addressed by the option tables
\* (offsize(T, F); the struct declarations live in the device/line headers)
FieldSize == 6

\* ------------------------------------------------------------------ locals
\* The({e : x \in {v}}) is e with the C local x holding v.  Where several
\* locals are set one after the other the bindings nest, so the first
\* assignment of the C function is the last line of the expression.
The(S) == CHOOSE e \in S : TRUE

\* ----------------------------------------------------------------- strings
NULL == <<"<NULL>">>

UpperChars == <<"A","B","C","D","E","F","G","H","I","J","K","L","M",
                "N","O","P","Q","R","S","T","U","V","W","X","Y","Z">>
LowerChars == <<"a","b","c","d","e","f","g","h","i","j","k","l","m",
                "n","o","p","q","r","s","t","u","v","w","x","y","z">>
DigitChars == <<"0","1","2","3","4","5","6","7","8","9">>

\* the upper-case letters, each mapped to its lower-case letter
LowerOf == [c \in {UpperChars[i] : i \in 1..26} |->
              LowerChars[CHOOSE i \in 1..26 : UpperChars[i] = c]]

tolower(c) == IF c \in DOMAIN LowerOf THEN LowerOf[c] ELSE c

StrLower(s) == [i \in 1..Len(s) |-> tolower(s[i])]

\* strcasecmp(a, b) == 0
StrCaseEq(a, b) == a # NULL /\ b # NULL /\ StrLower(a) = StrLower(b)

\* sccp_strcmp(a, b) == 0 (NULL-safe exact compare)
StrEq(a, b) == a = b

sccp_strlen_zero(s) == s = NULL \/ s = <<>>

\* pbx_copy_string / sccp_copy_string(dst, src, size): at most size-1 chars
pbx_copy_string(src, size) ==
  IF size <= 0 THEN <<>>
  ELSE IF Len(src) <= size - 1 THEN src ELSE SubSeq(src, 1, size - 1)

\* the decimal digits, each mapped to its value
DigitOf == [c \in {DigitChars[i] : i \in 1..10} |->
              (CHOOSE i \in 1..10 : DigitChars[i] = c) - 1]

IsDigit(c) == c \in DOMAIN DigitOf
DigitVal(c) == DigitOf[c]

IsHexDigit(c) == IsDigit(c) \/ \E i \in 1..6 : LowerChars[i] = tolower(c)
HexVal(c) == IF IsDigit(c) THEN DigitVal(c)
             ELSE 9 + (CHOOSE i \in 1..6 : LowerChars[i] = tolower(c))

IsSpace(c) == c \in {" ", "\t"}

RECURSIVE SkipSpace(_)
SkipSpace(s) == IF s # <<>> /\ IsSpace(s[1]) THEN SkipSpace(Tail(s)) ELSE s

\* value of the longest prefix of digits in the given base, with accumulator
RECURSIVE ScanDigits(_, _, _)
ScanDigits(s, base, acc) ==
  IF s = <<>> THEN acc
  ELSE IF base = 16 /\ IsHexDigit(s[1]) THEN ScanDigits(Tail(s), base, acc * 16 + HexVal(s[1]))
  ELSE IF base = 10 /\ IsDigit(s[1]) THEN ScanDigits(Tail(s), base, acc * 10 + DigitVal(s[1]))
  ELSE IF base = 8 /\ IsDigit(s[1]) /\ DigitVal(s[1]) < 8 THEN ScanDigits(Tail(s), base, acc * 8 + DigitVal(s[1]))
  ELSE acc

\* atoi(value): optional blanks, optional sign, decimal digits; 0 otherwise
atoi(value) ==
  The({
    IF s = <<>> THEN 0
    ELSE IF s[1] = "-" THEN 0 - ScanDigits(Tail(s), 10, 0)
    ELSE IF s[1] = "+" THEN ScanDigits(Tail(s), 10, 0)
    ELSE ScanDigits(s, 10, 0)
    : s \in {SkipSpace(value)} })

\* sscanf(value, "%d", &n): [ok |-> conversions = 1, n |-> number]
sscanf_d(value) ==
  The({The({
    IF t # <<>> /\ IsDigit(t[1])
    THEN [ok |-> TRUE, n |-> atoi(value)]
    ELSE [ok |-> FALSE, n |-> 0]
    : t \in {IF s # <<>> /\ s[1] \in {"-", "+"} THEN Tail(s) ELSE s} })
    : s \in {SkipSpace(value)} })

\* sscanf(value, "%i", &n): decimal, 0x hexadecimal or 0 octal
sscanf_i(value) ==
  The({The({The({The({The({
    IF t # <<>> /\ IsDigit(t[1])
    THEN [ok |-> TRUE, n |-> IF neg THEN 0 - m ELSE m]
    ELSE [ok |-> FALSE, n |-> 0]
    : m \in {IF hex THEN ScanDigits(SubSeq(t, 3, Len(t)), 16, 0)
             ELSE IF t # <<>> /\ t[1] = "0" THEN ScanDigits(t, 8, 0)
             ELSE ScanDigits(t, 10, 0)} })
    : hex \in {Len(t) >= 3 /\ t[1] = "0" /\ tolower(t[2]) = "x" /\ IsHexDigit(t[3])} })
    : t \in {IF s # <<>> /\ s[1] \in {"-", "+"} THEN Tail(s) ELSE s} })
    : neg \in {s # <<>> /\ s[1] = "-"} })
    : s \in {SkipSpace(value)} })

\* sccp_true(value): the PBX truth test
TrueWords == { <<"y","e","s">>, <<"t","r","u","e">>, <<"y">>, <<"t">>, <<"1">>, <<"o","n">> }
sccp_true(value) == IF value # NULL /\ StrLower(value) \in TrueWords THEN 1 ELSE 0

\* position of the first occurrence of character c in s, 0 when absent
RECURSIVE IndexOf(_, _, _)
IndexOf(s, c, i) ==
  IF i > Len(s) THEN 0 ELSE IF s[i] = c THEN i ELSE IndexOf(s, c, i + 1)

\* strsep(&s, delim): [tok |-> token, rest |-> remainder or NULL]
strsep(s, c) ==
  IF s = NULL THEN [tok |-> NULL, rest |-> NULL]
  ELSE The({
         IF k = 0 THEN [tok |-> s, rest |-> NULL]
         ELSE [tok |-> SubSeq(s, 1, k - 1), rest |-> SubSeq(s, k + 1, Len(s))]
         : k \in {IndexOf(s, c, 1)} })

\* pbx_strip(s): trim leading and trailing blanks
RECURSIVE StripRight(_)
StripRight(s) ==
  IF s # <<>> /\ IsSpace(s[Len(s)]) THEN StripRight(SubSeq(s, 1, Len(s) - 1)) ELSE s
pbx_strip(s) == StripRight(SkipSpace(s))

\* -------------------------------------------------------------- bit masks
RECURSIVE BitOr(_, _)
BitOr(a, b) ==
  IF a = 0 THEN b
  ELSE IF b = 0 THEN a
  ELSE (IF a % 2 = 1 \/ b % 2 = 1 THEN 1 ELSE 0) + 2 * BitOr(a \div 2, b \div 2)

RECURSIVE BitAnd(_, _)
BitAnd(a, b) ==
  IF a = 0 \/ b = 0 THEN 0
  ELSE (IF a % 2 = 1 /\ b % 2 = 1 THEN 1 ELSE 0) + 2 * BitAnd(a \div 2, b \div 2)

\* ------------------------------------------------------------------ enums
\* enum SCCPConfigOptionType
SCCP_CONFIG_DATATYPE_BOOLEAN == 1
SCCP_CONFIG_DATATYPE_INT == 2
SCCP_CONFIG_DATATYPE_STRING == 4
SCCP_CONFIG_DATATYPE_GENERIC == 8
SCCP_CONFIG_DATATYPE_STRINGPTR == 16
SCCP_CONFIG_DATATYPE_CHAR == 32

\* enum SCCPConfigOptionFlag
SCCP_CONFIG_FLAG_IGNORE == 1
SCCP_CONFIG_FLAG_NONE == 2
SCCP_CONFIG_FLAG_DEPRECATED == 4
SCCP_CONFIG_FLAG_OBSOLETE == 8
SCCP_CONFIG_FLAG_CHANGED == 16
SCCP_CONFIG_FLAG_REQUIRED == 32
SCCP_CONFIG_FLAG_GET_DEVICE_DEFAULT == 64
SCCP_CONFIG_FLAG_GET_GLOBAL_DEFAULT == 128

\* sccp_value_changed_t: the converters' tri-state outcome
SCCP_CONFIG_CHANGE_NOCHANGE == 0
SCCP_CONFIG_CHANGE_CHANGED == 1
SCCP_CONFIG_CHANGE_INVALIDVALUE == 2

\* sccp_configurationchange_t: what a change demands of the device
SCCP_CONFIG_NOUPDATENEEDED == 0
SCCP_CONFIG_NEEDDEVICERESET == 2

\* sccp_config_segment_t
SCCP_CONFIG_GLOBAL_SEGMENT == "global"
SCCP_CONFIG_DEVICE_SEGMENT == "device"
SCCP_CONFIG_LINE_SEGMENT == "line"
SCCP_CONFIG_SOFTKEY_SEGMENT == "softkey"

\* sccp_readingtype_t
SCCP_CONFIG_READINITIAL == "initial"
SCCP_CONFIG_READRELOAD == "reload"

\* ----------------------------------------------------------- option tables
sccpGlobalConfigOptions ==
  <<
  [name |-> "servername", field |-> "servername", offset |-> 1, type |-> SCCP_CONFIG_DATATYPE_STRING,
   flags |-> SCCP_CONFIG_FLAG_NONE, change |-> SCCP_CONFIG_NOUPDATENEEDED,
   defaultValue |-> <<"A","s","t","e","r","i","s","k">>, converter_f |-> "NULL"],
  [name |-> "keepalive", field |-> "keepalive", offset |-> 1, type |-> SCCP_CONFIG_DATATYPE_INT,
   flags |-> SCCP_CONFIG_FLAG_NONE, change |-> SCCP_CONFIG_NEEDDEVICERESET,
   defaultValue |-> <<"6","0">>, converter_f |-> "NULL"],
  [name |-> "debug", field |-> "debug", offset |-> 1, type |-> SCCP_CONFIG_DATATYPE_GENERIC,
   flags |-> SCCP_CONFIG_FLAG_NONE, change |-> SCCP_CONFIG_NOUPDATENEEDED,
   defaultValue |-> <<"c","o","r","e">>, converter_f |-> "sccp_config_parse_debug"],
  [name |-> "context", field |-> "context", offset |-> 1, type |-> SCCP_CONFIG_DATATYPE_STRING,
   flags |-> SCCP_CONFIG_FLAG_NONE, change |-> SCCP_CONFIG_NEEDDEVICERESET,
   defaultValue |-> <<"s","c","c","p">>, converter_f |-> "sccp_config_parse_context"],
  [name |-> "dateformat", field |-> "dateformat", offset |-> 1, type |-> SCCP_CONFIG_DATATYPE_STRING,
   flags |-> SCCP_CONFIG_FLAG_NONE, change |-> SCCP_CONFIG_NEEDDEVICERESET,
   defaultValue |-> <<"D",".","M",".","Y">>, converter_f |-> "NULL"],
  [name |-> "bindaddr", field |-> "bindaddr", offset |-> 1, type |-> SCCP_CONFIG_DATATYPE_GENERIC,
   flags |-> SCCP_CONFIG_FLAG_NONE, change |-> SCCP_CONFIG_NEEDDEVICERESET,
   defaultValue |-> <<"0",".","0",".","0",".","0">>, converter_f |-> "sccp_config_parse_ipaddress"],
  [name |-> "port", field |-> "bindaddr", offset |-> 1, type |-> SCCP_CONFIG_DATATYPE_GENERIC,
   flags |-> SCCP_CONFIG_FLAG_NONE, change |-> SCCP_CONFIG_NEEDDEVICERESET,
   defaultValue |-> <<"2","0","0","0">>, converter_f |-> "NULL"],
  [name |-> "disallow", field |-> "global_preferences", offset |-> 1, type |-> SCCP_CONFIG_DATATYPE_GENERIC,
   flags |-> SCCP_CONFIG_FLAG_NONE, change |-> SCCP_CONFIG_NEEDDEVICERESET,
   defaultValue |-> <<>>, converter_f |-> "sccp_config_parse_disallow_codec"],
  [name |-> "allow", field |-> "global_preferences", offset |-> 1, type |-> SCCP_CONFIG_DATATYPE_GENERIC,
   flags |-> SCCP_CONFIG_FLAG_NONE, change |-> SCCP_CONFIG_NEEDDEVICERESET,
   defaultValue |-> <<>>, converter_f |-> "sccp_config_parse_allow_codec"],
  [name |-> "deny", field |-> "ha", offset |-> 1, type |-> SCCP_CONFIG_DATATYPE_GENERIC,
   flags |-> SCCP_CONFIG_FLAG_NONE, change |-> SCCP_CONFIG_NEEDDEVICERESET,
   defaultValue |-> <<"0",".","0",".","0",".","0","/","0",".","0",".","0",".","0">>, converter_f |-> "sccp_config_parse_deny"],
  [name |-> "permit", field |-> "ha", offset |-> 1, type |-> SCCP_CONFIG_DATATYPE_GENERIC,
   flags |-> SCCP_CONFIG_FLAG_NONE, change |-> SCCP_CONFIG_NEEDDEVICERESET,
   defaultValue |-> <<"i","n","t","e","r","n","a","l">>, converter_f |-> "sccp_config_parse_permit"],
  [name |-> "quality_over_size", field |-> "prefer_quality_over_size", offset |-> 1, type |-> SCCP_CONFIG_DATATYPE_BOOLEAN,
   flags |-> SCCP_CONFIG_FLAG_NONE, change |-> SCCP_CONFIG_NOUPDATENEEDED,
   defaultValue |-> <<"t","r","u","e">>, converter_f |-> "NULL"],
  [name |-> "localnet", field |-> "localaddr", offset |-> 1, type |-> SCCP_CONFIG_DATATYPE_GENERIC,
   flags |-> SCCP_CONFIG_FLAG_NONE, change |-> SCCP_CONFIG_NEEDDEVICERESET,
   defaultValue |-> <<" ">>, converter_f |-> "sccp_config_parse_permit"],
  [name |-> "externip", field |-> "externip", offset |-> 1, type |-> SCCP_CONFIG_DATATYPE_GENERIC,
   flags |-> SCCP_CONFIG_FLAG_NONE, change |-> SCCP_CONFIG_NEEDDEVICERESET,
   defaultValue |-> <<>>, converter_f |-> "sccp_config_parse_ipaddress"],
  [name |-> "externhost", field |-> "externhost", offset |-> 1, type |-> SCCP_CONFIG_DATATYPE_STRING,
   flags |-> SCCP_CONFIG_FLAG_NONE, change |-> SCCP_CONFIG_NEEDDEVICERESET,
   defaultValue |-> <<>>, converter_f |-> "NULL"],
  [name |-> "externrefresh", field |-> "externrefresh", offset |-> 1, type |-> SCCP_CONFIG_DATATYPE_GENERIC,
   flags |-> SCCP_CONFIG_FLAG_NONE, change |-> SCCP_CONFIG_NEEDDEVICERESET,
   defaultValue |-> <<"6","0">>, converter_f |-> "sccp_config_parse_smallint"],
  [name |-> "firstdigittimeout", field |-> "firstdigittimeout", offset |-> 1, type |-> SCCP_CONFIG_DATATYPE_GENERIC,
   flags |-> SCCP_CONFIG_FLAG_NONE, change |-> SCCP_CONFIG_NOUPDATENEEDED,
   defaultValue |-> <<"1","6">>, converter_f |-> "sccp_config_parse_smallint"],
  [name |-> "digittimeout", field |-> "digittimeout", offset |-> 1, type |-> SCCP_CONFIG_DATATYPE_GENERIC,
   flags |-> SCCP_CONFIG_FLAG_NONE, change |-> SCCP_CONFIG_NOUPDATENEEDED,
   defaultValue |-> <<"8">>, converter_f |-> "sccp_config_parse_smallint"],
  [name |-> "digittimeoutchar", field |-> "digittimeoutchar", offset |-> 1, type |-> SCCP_CONFIG_DATATYPE_CHAR,
   flags |-> SCCP_CONFIG_FLAG_NONE, change |-> SCCP_CONFIG_NOUPDATENEEDED,
   defaultValue |-> <<"#">>, converter_f |-> "NULL"],
  [name |-> "recorddigittimeoutchar", field |-> "recorddigittimeoutchar", offset |-> 1, type |-> SCCP_CONFIG_DATATYPE_BOOLEAN,
   flags |-> SCCP_CONFIG_FLAG_NONE, change |-> SCCP_CONFIG_NOUPDATENEEDED,
   defaultValue |-> <<"f","a","l","s","e">>, converter_f |-> "NULL"],
  [name |-> "simulate_enbloc", field |-> "simulate_enbloc", offset |-> 1, type |-> SCCP_CONFIG_DATATYPE_BOOLEAN,
   flags |-> SCCP_CONFIG_FLAG_NONE, change |-> SCCP_CONFIG_NOUPDATENEEDED,
   defaultValue |-> <<"t","r","u","e">>, converter_f |-> "NULL"],
  [name |-> "autoanswer_ring_time", field |-> "autoanswer_ring_time", offset |-> 1, type |-> SCCP_CONFIG_DATATYPE_GENERIC,
   flags |-> SCCP_CONFIG_FLAG_NONE, change |-> SCCP_CONFIG_NOUPDATENEEDED,
   defaultValue |-> <<"1">>, converter_f |-> "sccp_config_parse_smallint"],
  [name |-> "autoanswer_tone", field |-> "autoanswer_tone", offset |-> 1, type |-> SCCP_CONFIG_DATATYPE_GENERIC,
   flags |-> SCCP_CONFIG_FLAG_NONE, change |-> SCCP_CONFIG_NOUPDATENEEDED,
   defaultValue |-> <<"0","x","3","2">>, converter_f |-> "sccp_config_parse_smallint"],
  [name |-> "remotehangup_tone", field |-> "remotehangup_tone", offset |-> 1, type |-> SCCP_CONFIG_DATATYPE_GENERIC,
   flags |-> SCCP_CONFIG_FLAG_NONE, change |-> SCCP_CONFIG_NOUPDATENEEDED,
   defaultValue |-> <<"0","x","3","2">>, converter_f |-> "sccp_config_parse_smallint"],
  [name |-> "transfer_tone", field |-> "transfer_tone", offset |-> 1, type |-> SCCP_CONFIG_DATATYPE_GENERIC,
   flags |-> SCCP_CONFIG_FLAG_NONE, change |-> SCCP_CONFIG_NOUPDATENEEDED,
   defaultValue |-> <<"0">>, converter_f |-> "sccp_config_parse_smallint"],
  [name |-> "callwaiting_tone", field |-> "callwaiting_tone", offset |-> 1, type |-> SCCP_CONFIG_DATATYPE_GENERIC,
   flags |-> SCCP_CONFIG_FLAG_NONE, change |-> SCCP_CONFIG_NOUPDATENEEDED,
   defaultValue |-> <<"0","x","2","d">>, converter_f |-> "sccp_config_parse_smallint"],
  [name |-> "musicclass", field |-> "musicclass", offset |-> 1, type |-> SCCP_CONFIG_DATATYPE_STRING,
   flags |-> SCCP_CONFIG_FLAG_NONE, change |-> SCCP_CONFIG_NOUPDATENEEDED,
   defaultValue |-> <<"d","e","f","a","u","l","t">>, converter_f |-> "NULL"],
  [name |-> "language", field |-> "language", offset |-> 1, type |-> SCCP_CONFIG_DATATYPE_STRING,
   flags |-> SCCP_CONFIG_FLAG_NONE, change |-> SCCP_CONFIG_NEEDDEVICERESET,
   defaultValue |-> <<"e","n">>, converter_f |-> "NULL"],
  [name |-> "callevents", field |-> "callevents", offset |-> 1, type |-> SCCP_CONFIG_DATATYPE_BOOLEAN,
   flags |-> SCCP_CONFIG_FLAG_NONE, change |-> SCCP_CONFIG_NOUPDATENEEDED,
   defaultValue |-> <<"o","n"," ">>, converter_f |-> "NULL"],
  [name |-> "accountcode", field |-> "accountcode", offset |-> 1, type |-> SCCP_CONFIG_DATATYPE_STRING,
   flags |-> SCCP_CONFIG_FLAG_NONE, change |-> SCCP_CONFIG_NOUPDATENEEDED,
   defaultValue |-> <<"s","k","i","n","n","y">>, converter_f |-> "NULL"],
  [name |-> "sccp_tos", field |-> "sccp_tos", offset |-> 1, type |-> SCCP_CONFIG_DATATYPE_GENERIC,
   flags |-> SCCP_CONFIG_FLAG_NONE, change |-> SCCP_CONFIG_NEEDDEVICERESET,
   defaultValue |-> <<"0","x","6","8">>, converter_f |-> "sccp_config_parse_tos"],
  [name |-> "sccp_cos", field |-> "sccp_cos", offset |-> 1, type |-> SCCP_CONFIG_DATATYPE_GENERIC,
   flags |-> SCCP_CONFIG_FLAG_NONE, change |-> SCCP_CONFIG_NEEDDEVICERESET,
   defaultValue |-> <<"4">>, converter_f |-> "sccp_config_parse_cos"],
  [name |-> "audio_tos", field |-> "audio_tos", offset |-> 1, type |-> SCCP_CONFIG_DATATYPE_GENERIC,
   flags |-> SCCP_CONFIG_FLAG_NONE, change |-> SCCP_CONFIG_NEEDDEVICERESET,
   defaultValue |-> <<"0","x","B","8">>, converter_f |-> "sccp_config_parse_tos"],
  [name |-> "audio_cos", field |-> "audio_cos", offset |-> 1, type |-> SCCP_CONFIG_DATATYPE_GENERIC,
   flags |-> SCCP_CONFIG_FLAG_NONE, change |-> SCCP_CONFIG_NEEDDEVICERESET,
   defaultValue |-> <<"6">>, converter_f |-> "sccp_config_parse_cos"],
  [name |-> "video_tos", field |-> "video_tos", offset |-> 1, type |-> SCCP_CONFIG_DATATYPE_GENERIC,
   flags |-> SCCP_CONFIG_FLAG_NONE, change |-> SCCP_CONFIG_NEEDDEVICERESET,
   defaultValue |-> <<"0","x","8","8">>, converter_f |-> "sccp_config_parse_tos"],
  [name |-> "video_cos", field |-> "video_cos", offset |-> 1, type |-> SCCP_CONFIG_DATATYPE_GENERIC,
   flags |-> SCCP_CONFIG_FLAG_NONE, change |-> SCCP_CONFIG_NEEDDEVICERESET,
   defaultValue |-> <<"5">>, converter_f |-> "sccp_config_parse_cos"],
  [name |-> "echocancel", field |-> "echocancel", offset |-> 1, type |-> SCCP_CONFIG_DATATYPE_BOOLEAN,
   flags |-> SCCP_CONFIG_FLAG_NONE, change |-> SCCP_CONFIG_NOUPDATENEEDED,
   defaultValue |-> <<"o","n">>, converter_f |-> "NULL"],
  [name |-> "silencesuppression", field |-> "silencesuppression", offset |-> 1, type |-> SCCP_CONFIG_DATATYPE_BOOLEAN,
   flags |-> SCCP_CONFIG_FLAG_NONE, change |-> SCCP_CONFIG_NOUPDATENEEDED,
   defaultValue |-> <<"o","f","f">>, converter_f |-> "NULL"],
  [name |-> "trustphoneip", field |-> "trustphoneip", offset |-> 1, type |-> SCCP_CONFIG_DATATYPE_BOOLEAN,
   flags |-> SCCP_CONFIG_FLAG_NONE, change |-> SCCP_CONFIG_NOUPDATENEEDED,
   defaultValue |-> <<"n","o">>, converter_f |-> "NULL"],
  [name |-> "earlyrtp", field |-> "earlyrtp", offset |-> 1, type |-> SCCP_CONFIG_DATATYPE_GENERIC,
   flags |-> SCCP_CONFIG_FLAG_NONE, change |-> SCCP_CONFIG_NOUPDATENEEDED,
   defaultValue |-> <<"p","r","o","g","r","e","s","s">>, converter_f |-> "sccp_config_parse_earlyrtp"],
  [name |-> "dnd", field |-> "dndmode", offset |-> 1, type |-> SCCP_CONFIG_DATATYPE_GENERIC,
   flags |-> SCCP_CONFIG_FLAG_NONE, change |-> SCCP_CONFIG_NOUPDATENEEDED,
   defaultValue |-> <<"r","e","j","e","c","t">>, converter_f |-> "sccp_config_parse_dnd"],
  [name |-> "private", field |-> "privacy", offset |-> 1, type |-> SCCP_CONFIG_DATATYPE_BOOLEAN,
   flags |-> SCCP_CONFIG_FLAG_NONE, change |-> SCCP_CONFIG_NOUPDATENEEDED,
   defaultValue |-> <<"o","n">>, converter_f |-> "NULL"],
  [name |-> "mwilamp", field |-> "mwilamp", offset |-> 1, type |-> SCCP_CONFIG_DATATYPE_GENERIC,
   flags |-> SCCP_CONFIG_FLAG_NONE, change |-> SCCP_CONFIG_NOUPDATENEEDED,
   defaultValue |-> <<"o","n">>, converter_f |-> "sccp_config_parse_mwilamp"],
  [name |-> "mwioncall", field |-> "mwioncall", offset |-> 1, type |-> SCCP_CONFIG_DATATYPE_BOOLEAN,
   flags |-> SCCP_CONFIG_FLAG_NONE, change |-> SCCP_CONFIG_NOUPDATENEEDED,
   defaultValue |-> <<"o","f","f">>, converter_f |-> "NULL"],
  [name |-> "blindtransferindication", field |-> "blindtransferindication", offset |-> 1, type |-> SCCP_CONFIG_DATATYPE_GENERIC,
   flags |-> SCCP_CONFIG_FLAG_NONE, change |-> SCCP_CONFIG_NOUPDATENEEDED,
   defaultValue |-> <<"r","i","n","g">>, converter_f |-> "sccp_config_parse_blindtransferindication"],
  [name |-> "cfwdall", field |-> "cfwdall", offset |-> 1, type |-> SCCP_CONFIG_DATATYPE_BOOLEAN,
   flags |-> SCCP_CONFIG_FLAG_NONE, change |-> SCCP_CONFIG_NEEDDEVICERESET,
   defaultValue |-> <<"o","n">>, converter_f |-> "NULL"],
  [name |-> "cfwdbusy", field |-> "cfwdbusy", offset |-> 1, type |-> SCCP_CONFIG_DATATYPE_BOOLEAN,
   flags |-> SCCP_CONFIG_FLAG_NONE, change |-> SCCP_CONFIG_NEEDDEVICERESET,
   defaultValue |-> <<"o","n">>, converter_f |-> "NULL"],
  [name |-> "cfwdnoanswer", field |-> "cfwdnoanswer", offset |-> 1, type |-> SCCP_CONFIG_DATATYPE_BOOLEAN,
   flags |-> SCCP_CONFIG_FLAG_NONE, change |-> SCCP_CONFIG_NEEDDEVICERESET,
   defaultValue |-> <<"o","n">>, converter_f |-> "NULL"],
  [name |-> "nat", field |-> "nat", offset |-> 1, type |-> SCCP_CONFIG_DATATYPE_BOOLEAN,
   flags |-> SCCP_CONFIG_FLAG_NONE, change |-> SCCP_CONFIG_NEEDDEVICERESET,
   defaultValue |-> <<"o","f","f">>, converter_f |-> "NULL"],
  [name |-> "directrtp", field |-> "directrtp", offset |-> 1, type |-> SCCP_CONFIG_DATATYPE_BOOLEAN,
   flags |-> SCCP_CONFIG_FLAG_NONE, change |-> SCCP_CONFIG_NOUPDATENEEDED,
   defaultValue |-> <<"o","f","f">>, converter_f |-> "NULL"],
  [name |-> "allowoverlap", field |-> "useoverlap", offset |-> 1, type |-> SCCP_CONFIG_DATATYPE_BOOLEAN,
   flags |-> SCCP_CONFIG_FLAG_NONE, change |-> SCCP_CONFIG_NOUPDATENEEDED,
   defaultValue |-> <<"o","f","f"," ">>, converter_f |-> "NULL"],
  [name |-> "callgroup", field |-> "callgroup", offset |-> 1, type |-> SCCP_CONFIG_DATATYPE_GENERIC,
   flags |-> SCCP_CONFIG_FLAG_NONE, change |-> SCCP_CONFIG_NOUPDATENEEDED,
   defaultValue |-> <<>>, converter_f |-> "sccp_config_parse_group"],
  [name |-> "pickupgroup", field |-> "pickupgroup", offset |-> 1, type |-> SCCP_CONFIG_DATATYPE_GENERIC,
   flags |-> SCCP_CONFIG_FLAG_NONE, change |-> SCCP_CONFIG_NOUPDATENEEDED,
   defaultValue |-> <<>>, converter_f |-> "sccp_config_parse_group"],
  [name |-> "pickupmodeanswer", field |-> "pickupmodeanswer", offset |-> 1, type |-> SCCP_CONFIG_DATATYPE_BOOLEAN,
   flags |-> SCCP_CONFIG_FLAG_NONE, change |-> SCCP_CONFIG_NOUPDATENEEDED,
   defaultValue |-> <<>>, converter_f |-> "NULL"],
  [name |-> "amaflags", field |-> "amaflags", offset |-> 1, type |-> SCCP_CONFIG_DATATYPE_GENERIC,
   flags |-> SCCP_CONFIG_FLAG_NONE, change |-> SCCP_CONFIG_NOUPDATENEEDED,
   defaultValue |-> <<>>, converter_f |-> "sccp_config_parse_amaflags"],
  [name |-> "protocolversion", field |-> "protocolversion", offset |-> 1, type |-> SCCP_CONFIG_DATATYPE_GENERIC,
   flags |-> SCCP_CONFIG_FLAG_OBSOLETE, change |-> SCCP_CONFIG_NOUPDATENEEDED,
   defaultValue |-> <<"2","0">>, converter_f |-> "NULL"],
  [name |-> "callanswerorder", field |-> "callanswerorder", offset |-> 1, type |-> SCCP_CONFIG_DATATYPE_GENERIC,
   flags |-> SCCP_CONFIG_FLAG_NONE, change |-> SCCP_CONFIG_NOUPDATENEEDED,
   defaultValue |-> <<"o","l","d","e","s","t","f","i","r","s","t">>, converter_f |-> "sccp_config_parse_callanswerorder"],
  [name |-> "regcontext", field |-> "regcontext", offset |-> 1, type |-> SCCP_CONFIG_DATATYPE_STRING,
   flags |-> SCCP_CONFIG_FLAG_NONE, change |-> SCCP_CONFIG_NEEDDEVICERESET,
   defaultValue |-> <<"s","c","c","p","r","e","g","i","s","t","r","a","t","i","o","n">>, converter_f |-> "sccp_config_parse_regcontext"],
  [name |-> "devicetable", field |-> "realtimedevicetable", offset |-> 1, type |-> SCCP_CONFIG_DATATYPE_STRING,
   flags |-> SCCP_CONFIG_FLAG_NONE, change |-> SCCP_CONFIG_NOUPDATENEEDED,
   defaultValue |-> <<"s","c","c","p","d","e","v","i","c","e">>, converter_f |-> "NULL"],
  [name |-> "linetable", field |-> "realtimelinetable", offset |-> 1, type |-> SCCP_CONFIG_DATATYPE_STRING,
   flags |-> SCCP_CONFIG_FLAG_NONE, change |-> SCCP_CONFIG_NOUPDATENEEDED,
   defaultValue |-> <<"s","c","c","p","l","i","n","e">>, converter_f |-> "NULL"],
  [name |-> "meetme", field |-> "meetme", offset |-> 1, type |-> SCCP_CONFIG_DATATYPE_BOOLEAN,
   flags |-> SCCP_CONFIG_FLAG_NONE, change |-> SCCP_CONFIG_NOUPDATENEEDED,
   defaultValue |-> <<"o","n">>, converter_f |-> "NULL"],
  [name |-> "meetmeopts", field |-> "meetmeopts", offset |-> 1, type |-> SCCP_CONFIG_DATATYPE_STRING,
   flags |-> SCCP_CONFIG_FLAG_NONE, change |-> SCCP_CONFIG_NOUPDATENEEDED,
   defaultValue |-> <<"q","x","d">>, converter_f |-> "NULL"],
  [name |-> "hotline_enabled", field |-> "allowAnonymous", offset |-> 1, type |-> SCCP_CONFIG_DATATYPE_BOOLEAN,
   flags |-> SCCP_CONFIG_FLAG_NONE, change |-> SCCP_CONFIG_NOUPDATENEEDED,
   defaultValue |-> <<"n","o">>, converter_f |-> "NULL"],
  [name |-> "fallback", field |-> "token_fallback", offset |-> 1, type |-> SCCP_CONFIG_DATATYPE_STRING,
   flags |-> SCCP_CONFIG_FLAG_NONE, change |-> SCCP_CONFIG_NOUPDATENEEDED,
   defaultValue |-> <<"f","a","l","s","e">>, converter_f |-> "NULL"],
  [name |-> "backoff_time", field |-> "token_backoff_time", offset |-> 1, type |-> SCCP_CONFIG_DATATYPE_INT,
   flags |-> SCCP_CONFIG_FLAG_NONE, change |-> SCCP_CONFIG_NOUPDATENEEDED,
   defaultValue |-> <<"6","0">>, converter_f |-> "NULL"]
  >>

sccpDeviceConfigOptions ==
  <<
  [name |-> "name", field |-> "NONE", offset |-> 0, type |-> SCCP_CONFIG_DATATYPE_STRING,
   flags |-> SCCP_CONFIG_FLAG_IGNORE, change |-> SCCP_CONFIG_NOUPDATENEEDED,
   defaultValue |-> NULL, converter_f |-> "NULL"],
  [name |-> "type", field |-> "NONE", offset |-> 0, type |-> SCCP_CONFIG_DATATYPE_STRING,
   flags |-> SCCP_CONFIG_FLAG_IGNORE, change |-> SCCP_CONFIG_NOUPDATENEEDED,
   defaultValue |-> NULL, converter_f |-> "NULL"],
  [name |-> "device", field |-> "config_type", offset |-> 1, type |-> SCCP_CONFIG_DATATYPE_STRING,
   flags |-> SCCP_CONFIG_FLAG_NONE, change |-> SCCP_CONFIG_NEEDDEVICERESET,
   defaultValue |-> NULL, converter_f |-> "NULL"],
  [name |-> "devicetype", field |-> "config_type", offset |-> 1, type |-> SCCP_CONFIG_DATATYPE_STRING,
   flags |-> SCCP_CONFIG_FLAG_NONE, change |-> SCCP_CONFIG_NEEDDEVICERESET,
   defaultValue |-> NULL, converter_f |-> "NULL"],
  [name |-> "type", field |-> "config_type", offset |-> 1, type |-> SCCP_CONFIG_DATATYPE_STRING,
   flags |-> SCCP_CONFIG_FLAG_NONE, change |-> SCCP_CONFIG_NEEDDEVICERESET,
   defaultValue |-> NULL, converter_f |-> "NULL"],
  [name |-> "description", field |-> "description", offset |-> 1, type |-> SCCP_CONFIG_DATATYPE_STRING,
   flags |-> SCCP_CONFIG_FLAG_NONE, change |-> SCCP_CONFIG_NEEDDEVICERESET,
   defaultValue |-> NULL, converter_f |-> "NULL"],
  [name |-> "keepalive", field |-> "keepalive", offset |-> 1, type |-> SCCP_CONFIG_DATATYPE_INT,
   flags |-> SCCP_CONFIG_FLAG_GET_GLOBAL_DEFAULT, change |-> SCCP_CONFIG_NEEDDEVICERESET,
   defaultValue |-> NULL, converter_f |-> "NULL"],
  [name |-> "tzoffset", field |-> "tz_offset", offset |-> 1, type |-> SCCP_CONFIG_DATATYPE_INT,
   flags |-> SCCP_CONFIG_FLAG_NONE, change |-> SCCP_CONFIG_NEEDDEVICERESET,
   defaultValue |-> <<"0">>, converter_f |-> "NULL"],
  [name |-> "disallow", field |-> "preferences", offset |-> 1, type |-> SCCP_CONFIG_DATATYPE_GENERIC,
   flags |-> SCCP_CONFIG_FLAG_GET_GLOBAL_DEFAULT, change |-> SCCP_CONFIG_NOUPDATENEEDED,
   defaultValue |-> NULL, converter_f |-> "sccp_config_parse_disallow_codec"],
  [name |-> "allow", field |-> "preferences", offset |-> 1, type |-> SCCP_CONFIG_DATATYPE_GENERIC,
   flags |-> SCCP_CONFIG_FLAG_GET_GLOBAL_DEFAULT, change |-> SCCP_CONFIG_NOUPDATENEEDED,
   defaultValue |-> NULL, converter_f |-> "sccp_config_parse_allow_codec"],
  [name |-> "transfer", field |-> "transfer", offset |-> 1, type |-> SCCP_CONFIG_DATATYPE_BOOLEAN,
   flags |-> SCCP_CONFIG_FLAG_NONE, change |-> SCCP_CONFIG_NOUPDATENEEDED,
   defaultValue |-> <<"o","n">>, converter_f |-> "NULL"],
  [name |-> "park", field |-> "park", offset |-> 1, type |-> SCCP_CONFIG_DATATYPE_BOOLEAN,
   flags |-> SCCP_CONFIG_FLAG_NONE, change |-> SCCP_CONFIG_NOUPDATENEEDED,
   defaultValue |-> <<"o","n">>, converter_f |-> "NULL"],
  [name |-> "cfwdall", field |-> "cfwdall", offset |-> 1, type |-> SCCP_CONFIG_DATATYPE_BOOLEAN,
   flags |-> SCCP_CONFIG_FLAG_GET_GLOBAL_DEFAULT, change |-> SCCP_CONFIG_NOUPDATENEEDED,
   defaultValue |-> <<"o","f","f">>, converter_f |-> "NULL"],
  [name |-> "cfwdbusy", field |-> "cfwdbusy", offset |-> 1, type |-> SCCP_CONFIG_DATATYPE_BOOLEAN,
   flags |-> SCCP_CONFIG_FLAG_GET_GLOBAL_DEFAULT, change |-> SCCP_CONFIG_NOUPDATENEEDED,
   defaultValue |-> <<"o","f","f">>, converter_f |-> "NULL"],
  [name |-> "cfwdnoanswer", field |-> "cfwdnoanswer", offset |-> 1, type |-> SCCP_CONFIG_DATATYPE_BOOLEAN,
   flags |-> SCCP_CONFIG_FLAG_GET_GLOBAL_DEFAULT, change |-> SCCP_CONFIG_NOUPDATENEEDED,
   defaultValue |-> <<"o","f","f">>, converter_f |-> "NULL"],
  [name |-> "dnd", field |-> "dndFeature.enabled", offset |-> 1, type |-> SCCP_CONFIG_DATATYPE_BOOLEAN,
   flags |-> SCCP_CONFIG_FLAG_OBSOLETE, change |-> SCCP_CONFIG_NOUPDATENEEDED,
   defaultValue |-> NULL, converter_f |-> "NULL"],
  [name |-> "dndFeature", field |-> "dndFeature.enabled", offset |-> 1, type |-> SCCP_CONFIG_DATATYPE_BOOLEAN,
   flags |-> SCCP_CONFIG_FLAG_NONE, change |-> SCCP_CONFIG_NOUPDATENEEDED,
   defaultValue |-> <<"o","n">>, converter_f |-> "NULL"],
  [name |-> "dtmfmode", field |-> "dtmfmode", offset |-> 1, type |-> SCCP_CONFIG_DATATYPE_GENERIC,
   flags |-> SCCP_CONFIG_FLAG_GET_GLOBAL_DEFAULT, change |-> SCCP_CONFIG_NOUPDATENEEDED,
   defaultValue |-> <<"i","n","b","a","n","d">>, converter_f |-> "sccp_config_parse_dtmfmode"],
  [name |-> "imageversion", field |-> "imageversion", offset |-> 1, type |-> SCCP_CONFIG_DATATYPE_STRING,
   flags |-> SCCP_CONFIG_FLAG_GET_GLOBAL_DEFAULT, change |-> SCCP_CONFIG_NEEDDEVICERESET,
   defaultValue |-> NULL, converter_f |-> "NULL"],
  [name |-> "deny", field |-> "ha", offset |-> 1, type |-> SCCP_CONFIG_DATATYPE_GENERIC,
   flags |-> SCCP_CONFIG_FLAG_GET_GLOBAL_DEFAULT, change |-> SCCP_CONFIG_NEEDDEVICERESET,
   defaultValue |-> NULL, converter_f |-> "sccp_config_parse_deny"],
  [name |-> "permit", field |-> "ha", offset |-> 1, type |-> SCCP_CONFIG_DATATYPE_GENERIC,
   flags |-> SCCP_CONFIG_FLAG_GET_GLOBAL_DEFAULT, change |-> SCCP_CONFIG_NEEDDEVICERESET,
   defaultValue |-> NULL, converter_f |-> "sccp_config_parse_permit"],
  [name |-> "audio_tos", field |-> "audio_tos", offset |-> 1, type |-> SCCP_CONFIG_DATATYPE_GENERIC,
   flags |-> SCCP_CONFIG_FLAG_GET_DEVICE_DEFAULT, change |-> SCCP_CONFIG_NEEDDEVICERESET,
   defaultValue |-> NULL, converter_f |-> "sccp_config_parse_tos"],
  [name |-> "audio_cos", field |-> "audio_cos", offset |-> 1, type |-> SCCP_CONFIG_DATATYPE_GENERIC,
   flags |-> SCCP_CONFIG_FLAG_GET_DEVICE_DEFAULT, change |-> SCCP_CONFIG_NEEDDEVICERESET,
   defaultValue |-> NULL, converter_f |-> "sccp_config_parse_cos"],
  [name |-> "video_tos", field |-> "video_tos", offset |-> 1, type |-> SCCP_CONFIG_DATATYPE_GENERIC,
   flags |-> SCCP_CONFIG_FLAG_GET_DEVICE_DEFAULT, change |-> SCCP_CONFIG_NEEDDEVICERESET,
   defaultValue |-> NULL, converter_f |-> "sccp_config_parse_tos"],
  [name |-> "video_cos", field |-> "video_cos", offset |-> 1, type |-> SCCP_CONFIG_DATATYPE_GENERIC,
   flags |-> SCCP_CONFIG_FLAG_GET_DEVICE_DEFAULT, change |-> SCCP_CONFIG_NEEDDEVICERESET,
   defaultValue |-> NULL, converter_f |-> "sccp_config_parse_cos"],
  [name |-> "trustphoneip", field |-> "trustphoneip", offset |-> 1, type |-> SCCP_CONFIG_DATATYPE_BOOLEAN,
   flags |-> SCCP_CONFIG_FLAG_GET_GLOBAL_DEFAULT, change |-> SCCP_CONFIG_NEEDDEVICERESET,
   defaultValue |-> NULL, converter_f |-> "NULL"],
  [name |-> "nat", field |-> "nat", offset |-> 1, type |-> SCCP_CONFIG_DATATYPE_BOOLEAN,
   flags |-> SCCP_CONFIG_FLAG_DEPRECATED + SCCP_CONFIG_FLAG_GET_GLOBAL_DEFAULT, change |-> SCCP_CONFIG_NOUPDATENEEDED,
   defaultValue |-> NULL, converter_f |-> "NULL"],
  [name |-> "directrtp", field |-> "directrtp", offset |-> 1, type |-> SCCP_CONFIG_DATATYPE_BOOLEAN,
   flags |-> SCCP_CONFIG_FLAG_GET_GLOBAL_DEFAULT, change |-> SCCP_CONFIG_NOUPDATENEEDED,
   defaultValue |-> NULL, converter_f |-> "NULL"],
  [name |-> "earlyrtp", field |-> "earlyrtp", offset |-> 1, type |-> SCCP_CONFIG_DATATYPE_GENERIC,
   flags |-> SCCP_CONFIG_FLAG_GET_GLOBAL_DEFAULT, change |-> SCCP_CONFIG_NOUPDATENEEDED,
   defaultValue |-> NULL, converter_f |-> "sccp_config_parse_earlyrtp"],
  [name |-> "private", field |-> "privacyFeature.enabled", offset |-> 1, type |-> SCCP_CONFIG_DATATYPE_BOOLEAN,
   flags |-> SCCP_CONFIG_FLAG_GET_GLOBAL_DEFAULT, change |-> SCCP_CONFIG_NOUPDATENEEDED,
   defaultValue |-> NULL, converter_f |-> "NULL"],
  [name |-> "privacy", field |-> "privacyFeature", offset |-> 1, type |-> SCCP_CONFIG_DATATYPE_GENERIC,
   flags |-> SCCP_CONFIG_FLAG_NONE, change |-> SCCP_CONFIG_NOUPDATENEEDED,
   defaultValue |-> NULL, converter_f |-> "sccp_config_parse_privacyFeature"],
  [name |-> "mwilamp", field |-> "mwilamp", offset |-> 1, type |-> SCCP_CONFIG_DATATYPE_GENERIC,
   flags |-> SCCP_CONFIG_FLAG_GET_GLOBAL_DEFAULT, change |-> SCCP_CONFIG_NOUPDATENEEDED,
   defaultValue |-> NULL, converter_f |-> "sccp_config_parse_mwilamp"],
  [name |-> "mwioncall", field |-> "mwioncall", offset |-> 1, type |-> SCCP_CONFIG_DATATYPE_BOOLEAN,
   flags |-> SCCP_CONFIG_FLAG_GET_GLOBAL_DEFAULT, change |-> SCCP_CONFIG_NOUPDATENEEDED,
   defaultValue |-> NULL, converter_f |-> "NULL"],
  [name |-> "meetme", field |-> "meetme", offset |-> 1, type |-> SCCP_CONFIG_DATATYPE_BOOLEAN,
   flags |-> SCCP_CONFIG_FLAG_GET_GLOBAL_DEFAULT, change |-> SCCP_CONFIG_NOUPDATENEEDED,
   defaultValue |-> NULL, converter_f |-> "NULL"],
  [name |-> "meetmeopts", field |-> "meetmeopts", offset |-> 1, type |-> SCCP_CONFIG_DATATYPE_STRING,
   flags |-> SCCP_CONFIG_FLAG_GET_GLOBAL_DEFAULT, change |-> SCCP_CONFIG_NOUPDATENEEDED,
   defaultValue |-> NULL, converter_f |-> "NULL"],
  [name |-> "softkeyset", field |-> "softkeyDefinition", offset |-> 1, type |-> SCCP_CONFIG_DATATYPE_STRING,
   flags |-> SCCP_CONFIG_FLAG_NONE, change |-> SCCP_CONFIG_NEEDDEVICERESET,
   defaultValue |-> NULL, converter_f |-> "NULL"],
  [name |-> "useRedialMenu", field |-> "useRedialMenu", offset |-> 1, type |-> SCCP_CONFIG_DATATYPE_BOOLEAN,
   flags |-> SCCP_CONFIG_FLAG_NONE, change |-> SCCP_CONFIG_NOUPDATENEEDED,
   defaultValue |-> <<"o","f","f">>, converter_f |-> "NULL"],
  [name |-> "pickupexten", field |-> "pickupexten", offset |-> 1, type |-> SCCP_CONFIG_DATATYPE_BOOLEAN,
   flags |-> SCCP_CONFIG_FLAG_NONE, change |-> SCCP_CONFIG_NOUPDATENEEDED,
   defaultValue |-> <<"o","f","f">>, converter_f |-> "NULL"],
  [name |-> "pickupcontext", field |-> "pickupcontext", offset |-> 1, type |-> SCCP_CONFIG_DATATYPE_GENERIC,
   flags |-> SCCP_CONFIG_FLAG_NONE, change |-> SCCP_CONFIG_NOUPDATENEEDED,
   defaultValue |-> <<"s","c","c","p">>, converter_f |-> "sccp_config_parse_context"],
  [name |-> "pickupmodeanswer", field |-> "pickupmodeanswer", offset |-> 1, type |-> SCCP_CONFIG_DATATYPE_BOOLEAN,
   flags |-> SCCP_CONFIG_FLAG_NONE, change |-> SCCP_CONFIG_NOUPDATENEEDED,
   defaultValue |-> <<"o","n">>, converter_f |-> "NULL"],
  [name |-> "monitor", field |-> "monitorFeature.enabled", offset |-> 1, type |-> SCCP_CONFIG_DATATYPE_BOOLEAN,
   flags |-> SCCP_CONFIG_FLAG_NONE, change |-> SCCP_CONFIG_NOUPDATENEEDED,
   defaultValue |-> NULL, converter_f |-> "NULL"],
  [name |-> "allowoverlap", field |-> "overlapFeature.enabled", offset |-> 1, type |-> SCCP_CONFIG_DATATYPE_BOOLEAN,
   flags |-> SCCP_CONFIG_FLAG_NONE, change |-> SCCP_CONFIG_NOUPDATENEEDED,
   defaultValue |-> NULL, converter_f |-> "NULL"],
  [name |-> "setvar", field |-> "variables", offset |-> 1, type |-> SCCP_CONFIG_DATATYPE_GENERIC,
   flags |-> SCCP_CONFIG_FLAG_NONE, change |-> SCCP_CONFIG_NOUPDATENEEDED,
   defaultValue |-> NULL, converter_f |-> "sccp_config_parse_variables"],
  [name |-> "permithost", field |-> "permithosts", offset |-> 1, type |-> SCCP_CONFIG_DATATYPE_GENERIC,
   flags |-> SCCP_CONFIG_FLAG_NONE, change |-> SCCP_CONFIG_NEEDDEVICERESET,
   defaultValue |-> NULL, converter_f |-> "sccp_config_parse_permithosts"],
  [name |-> "addon", field |-> "addons", offset |-> 1, type |-> SCCP_CONFIG_DATATYPE_GENERIC,
   flags |-> SCCP_CONFIG_FLAG_NONE, change |-> SCCP_CONFIG_NEEDDEVICERESET,
   defaultValue |-> NULL, converter_f |-> "sccp_config_parse_addons"],
  [name |-> "dtmfmode", field |-> "dtmfmode", offset |-> 1, type |-> SCCP_CONFIG_DATATYPE_GENERIC,
   flags |-> SCCP_CONFIG_FLAG_GET_GLOBAL_DEFAULT, change |-> SCCP_CONFIG_NOUPDATENEEDED,
   defaultValue |-> NULL, converter_f |-> "sccp_config_parse_dtmfmode"],
  [name |-> "button", field |-> "buttonconfig", offset |-> 1, type |-> SCCP_CONFIG_DATATYPE_GENERIC,
   flags |-> SCCP_CONFIG_FLAG_NONE, change |-> SCCP_CONFIG_NEEDDEVICERESET,
   defaultValue |-> NULL, converter_f |-> "sccp_config_parse_button"],
  [name |-> "digittimeout", field |-> "digittimeout", offset |-> 1, type |-> SCCP_CONFIG_DATATYPE_GENERIC,
   flags |-> SCCP_CONFIG_FLAG_GET_GLOBAL_DEFAULT, change |-> SCCP_CONFIG_NOUPDATENEEDED,
   defaultValue |-> <<"8">>, converter_f |-> "sccp_config_parse_smallint"]
  >>

sccpLineConfigOptions ==
  <<
  [name |-> "name", field |-> "NONE", offset |-> 0, type |-> SCCP_CONFIG_DATATYPE_STRING,
   flags |-> SCCP_CONFIG_FLAG_IGNORE, change |-> SCCP_CONFIG_NOUPDATENEEDED,
   defaultValue |-> NULL, converter_f |-> "NULL"],
  [name |-> "line", field |-> "NONE", offset |-> 0, type |-> SCCP_CONFIG_DATATYPE_STRING,
   flags |-> SCCP_CONFIG_FLAG_IGNORE, change |-> SCCP_CONFIG_NOUPDATENEEDED,
   defaultValue |-> NULL, converter_f |-> "NULL"],
  [name |-> "type", field |-> "NONE", offset |-> 0, type |-> SCCP_CONFIG_DATATYPE_STRING,
   flags |-> SCCP_CONFIG_FLAG_IGNORE, change |-> SCCP_CONFIG_NOUPDATENEEDED,
   defaultValue |-> NULL, converter_f |-> "NULL"],
  [name |-> "id", field |-> "id", offset |-> 1, type |-> SCCP_CONFIG_DATATYPE_STRING,
   flags |-> SCCP_CONFIG_FLAG_NONE, change |-> SCCP_CONFIG_NOUPDATENEEDED,
   defaultValue |-> NULL, converter_f |-> "NULL"],
  [name |-> "pin", field |-> "pin", offset |-> 1, type |-> SCCP_CONFIG_DATATYPE_STRING,
   flags |-> SCCP_CONFIG_FLAG_REQUIRED, change |-> SCCP_CONFIG_NOUPDATENEEDED,
   defaultValue |-> NULL, converter_f |-> "NULL"],
  [name |-> "label", field |-> "label", offset |-> 1, type |-> SCCP_CONFIG_DATATYPE_STRING,
   flags |-> SCCP_CONFIG_FLAG_REQUIRED, change |-> SCCP_CONFIG_NEEDDEVICERESET,
   defaultValue |-> NULL, converter_f |-> "NULL"],
  [name |-> "description", field |-> "description", offset |-> 1, type |-> SCCP_CONFIG_DATATYPE_STRING,
   flags |-> SCCP_CONFIG_FLAG_NONE, change |-> SCCP_CONFIG_NOUPDATENEEDED,
   defaultValue |-> NULL, converter_f |-> "NULL"],
  [name |-> "context", field |-> "context", offset |-> 1, type |-> SCCP_CONFIG_DATATYPE_STRING,
   flags |-> SCCP_CONFIG_FLAG_GET_GLOBAL_DEFAULT, change |-> SCCP_CONFIG_NOUPDATENEEDED,
   defaultValue |-> NULL, converter_f |-> "NULL"],
  [name |-> "cid_name", field |-> "cid_name", offset |-> 1, type |-> SCCP_CONFIG_DATATYPE_STRING,
   flags |-> SCCP_CONFIG_FLAG_REQUIRED, change |-> SCCP_CONFIG_NOUPDATENEEDED,
   defaultValue |-> NULL, converter_f |-> "NULL"],
  [name |-> "cid_num", field |-> "cid_num", offset |-> 1, type |-> SCCP_CONFIG_DATATYPE_STRING,
   flags |-> SCCP_CONFIG_FLAG_REQUIRED, change |-> SCCP_CONFIG_NOUPDATENEEDED,
   defaultValue |-> NULL, converter_f |-> "NULL"],
  [name |-> "defaultSubscriptionId_name", field |-> "defaultSubscriptionId.name", offset |-> 1, type |-> SCCP_CONFIG_DATATYPE_STRING,
   flags |-> SCCP_CONFIG_FLAG_NONE, change |-> SCCP_CONFIG_NOUPDATENEEDED,
   defaultValue |-> NULL, converter_f |-> "NULL"],
  [name |-> "defaultSubscriptionId_number", field |-> "defaultSubscriptionId.number", offset |-> 1, type |-> SCCP_CONFIG_DATATYPE_STRING,
   flags |-> SCCP_CONFIG_FLAG_NONE, change |-> SCCP_CONFIG_NOUPDATENEEDED,
   defaultValue |-> NULL, converter_f |-> "NULL"],
  [name |-> "callerid", field |-> "NONE", offset |-> 0, type |-> SCCP_CONFIG_DATATYPE_STRING,
   flags |-> SCCP_CONFIG_FLAG_OBSOLETE, change |-> SCCP_CONFIG_NOUPDATENEEDED,
   defaultValue |-> NULL, converter_f |-> "NULL"],
  [name |-> "mailbox", field |-> "mailboxes", offset |-> 1, type |-> SCCP_CONFIG_DATATYPE_GENERIC,
   flags |-> SCCP_CONFIG_FLAG_NONE, change |-> SCCP_CONFIG_NOUPDATENEEDED,
   defaultValue |-> NULL, converter_f |-> "sccp_config_parse_mailbox"],
  [name |-> "vmnum", field |-> "vmnum", offset |-> 1, type |-> SCCP_CONFIG_DATATYPE_STRING,
   flags |-> SCCP_CONFIG_FLAG_NONE, change |-> SCCP_CONFIG_NOUPDATENEEDED,
   defaultValue |-> NULL, converter_f |-> "NULL"],
  [name |-> "adhocNumber", field |-> "adhocNumber", offset |-> 1, type |-> SCCP_CONFIG_DATATYPE_STRING,
   flags |-> SCCP_CONFIG_FLAG_NONE, change |-> SCCP_CONFIG_NOUPDATENEEDED,
   defaultValue |-> NULL, converter_f |-> "NULL"],
  [name |-> "meetme", field |-> "meetme", offset |-> 1, type |-> SCCP_CONFIG_DATATYPE_BOOLEAN,
   flags |-> SCCP_CONFIG_FLAG_GET_DEVICE_DEFAULT, change |-> SCCP_CONFIG_NOUPDATENEEDED,
   defaultValue |-> NULL, converter_f |-> "NULL"],
  [name |-> "meetmenum", field |-> "meetmenum", offset |-> 1, type |-> SCCP_CONFIG_DATATYPE_STRING,
   flags |-> SCCP_CONFIG_FLAG_GET_GLOBAL_DEFAULT, change |-> SCCP_CONFIG_NOUPDATENEEDED,
   defaultValue |-> NULL, converter_f |-> "NULL"],
  [name |-> "meetmeopts", field |-> "meetmeopts", offset |-> 1, type |-> SCCP_CONFIG_DATATYPE_STRING,
   flags |-> SCCP_CONFIG_FLAG_GET_DEVICE_DEFAULT, change |-> SCCP_CONFIG_NOUPDATENEEDED,
   defaultValue |-> NULL, converter_f |-> "NULL"],
  [name |-> "transfer", field |-> "transfer", offset |-> 1, type |-> SCCP_CONFIG_DATATYPE_BOOLEAN,
   flags |-> SCCP_CONFIG_FLAG_GET_DEVICE_DEFAULT, change |-> SCCP_CONFIG_NOUPDATENEEDED,
   defaultValue |-> NULL, converter_f |-> "NULL"],
  [name |-> "incominglimit", field |-> "incominglimit", offset |-> 1, type |-> SCCP_CONFIG_DATATYPE_INT,
   flags |-> SCCP_CONFIG_FLAG_NONE, change |-> SCCP_CONFIG_NOUPDATENEEDED,
   defaultValue |-> NULL, converter_f |-> "NULL"],
  [name |-> "echocancel", field |-> "echocancel", offset |-> 1, type |-> SCCP_CONFIG_DATATYPE_BOOLEAN,
   flags |-> SCCP_CONFIG_FLAG_GET_GLOBAL_DEFAULT, change |-> SCCP_CONFIG_NOUPDATENEEDED,
   defaultValue |-> NULL, converter_f |-> "NULL"],
  [name |-> "silencesuppression", field |-> "silencesuppression", offset |-> 1, type |-> SCCP_CONFIG_DATATYPE_BOOLEAN,
   flags |-> SCCP_CONFIG_FLAG_GET_GLOBAL_DEFAULT, change |-> SCCP_CONFIG_NOUPDATENEEDED,
   defaultValue |-> NULL, converter_f |-> "NULL"],
  [name |-> "language", field |-> "language", offset |-> 1, type |-> SCCP_CONFIG_DATATYPE_STRING,
   flags |-> SCCP_CONFIG_FLAG_GET_GLOBAL_DEFAULT, change |-> SCCP_CONFIG_NOUPDATENEEDED,
   defaultValue |-> NULL, converter_f |-> "NULL"],
  [name |-> "musicclass", field |-> "musicclass", offset |-> 1, type |-> SCCP_CONFIG_DATATYPE_STRING,
   flags |-> SCCP_CONFIG_FLAG_GET_GLOBAL_DEFAULT, change |-> SCCP_CONFIG_NOUPDATENEEDED,
   defaultValue |-> NULL, converter_f |-> "NULL"],
  [name |-> "accountcode", field |-> "accountcode", offset |-> 1, type |-> SCCP_CONFIG_DATATYPE_STRING,
   flags |-> SCCP_CONFIG_FLAG_NONE, change |-> SCCP_CONFIG_NOUPDATENEEDED,
   defaultValue |-> NULL, converter_f |-> "NULL"],
  [name |-> "amaflags", field |-> "amaflags", offset |-> 1, type |-> SCCP_CONFIG_DATATYPE_GENERIC,
   flags |-> SCCP_CONFIG_FLAG_NONE, change |-> SCCP_CONFIG_NOUPDATENEEDED,
   defaultValue |-> NULL, converter_f |-> "sccp_config_parse_amaflags"],
  [name |-> "callgroup", field |-> "callgroup", offset |-> 1, type |-> SCCP_CONFIG_DATATYPE_GENERIC,
   flags |-> SCCP_CONFIG_FLAG_NONE, change |-> SCCP_CONFIG_NOUPDATENEEDED,
   defaultValue |-> NULL, converter_f |-> "sccp_config_parse_group"],
  [name |-> "pickupgroup", field |-> "pickupgroup", offset |-> 1, type |-> SCCP_CONFIG_DATATYPE_GENERIC,
   flags |-> SCCP_CONFIG_FLAG_NONE, change |-> SCCP_CONFIG_NOUPDATENEEDED,
   defaultValue |-> NULL, converter_f |-> "sccp_config_parse_group"],
  [name |-> "trnsfvm", field |-> "trnsfvm", offset |-> 1, type |-> SCCP_CONFIG_DATATYPE_STRINGPTR,
   flags |-> SCCP_CONFIG_FLAG_NONE, change |-> SCCP_CONFIG_NOUPDATENEEDED,
   defaultValue |-> NULL, converter_f |-> "NULL"],
  [name |-> "secondary_dialtone_digits", field |-> "secondary_dialtone_digits", offset |-> 1, type |-> SCCP_CONFIG_DATATYPE_GENERIC,
   flags |-> SCCP_CONFIG_FLAG_NONE, change |-> SCCP_CONFIG_NOUPDATENEEDED,
   defaultValue |-> <<"9">>, converter_f |-> "sccp_config_parse_secondaryDialtoneDigits"],
  [name |-> "secondary_dialtone_tone", field |-> "secondary_dialtone_tone", offset |-> 1, type |-> SCCP_CONFIG_DATATYPE_INT,
   flags |-> SCCP_CONFIG_FLAG_NONE, change |-> SCCP_CONFIG_NOUPDATENEEDED,
   defaultValue |-> <<"0","x","2","2">>, converter_f |-> "NULL"],
  [name |-> "setvar", field |-> "variables", offset |-> 1, type |-> SCCP_CONFIG_DATATYPE_GENERIC,
   flags |-> SCCP_CONFIG_FLAG_NONE, change |-> SCCP_CONFIG_NOUPDATENEEDED,
   defaultValue |-> NULL, converter_f |-> "sccp_config_parse_variables"],
  [name |-> "dnd", field |-> "dndmode", offset |-> 1, type |-> SCCP_CONFIG_DATATYPE_GENERIC,
   flags |-> SCCP_CONFIG_FLAG_GET_GLOBAL_DEFAULT, change |-> SCCP_CONFIG_NOUPDATENEEDED,
   defaultValue |-> <<"r","e","j","e","c","t">>, converter_f |-> "sccp_config_parse_dnd"],
  [name |-> "regexten", field |-> "regexten", offset |-> 1, type |-> SCCP_CONFIG_DATATYPE_STRING,
   flags |-> SCCP_CONFIG_FLAG_NONE, change |-> SCCP_CONFIG_NOUPDATENEEDED,
   defaultValue |-> NULL, converter_f |-> "NULL"],
  [name |-> "test1", field |-> "regexten", offset |-> 1, type |-> SCCP_CONFIG_DATATYPE_STRING,
   flags |-> SCCP_CONFIG_FLAG_OBSOLETE, change |-> SCCP_CONFIG_NOUPDATENEEDED,
   defaultValue |-> NULL, converter_f |-> "NULL"],
  [name |-> "test2", field |-> "regexten", offset |-> 1, type |-> SCCP_CONFIG_DATATYPE_STRING,
   flags |-> SCCP_CONFIG_FLAG_DEPRECATED, change |-> SCCP_CONFIG_NOUPDATENEEDED,
   defaultValue |-> NULL, converter_f |-> "NULL"]
  >>

sccpSoftKeyConfigOptions ==
  <<
  [name |-> "type", field |-> "NONE", offset |-> 0, type |-> SCCP_CONFIG_DATATYPE_STRING,
   flags |-> SCCP_CONFIG_FLAG_IGNORE, change |-> SCCP_CONFIG_NOUPDATENEEDED,
   defaultValue |-> <<"s","o","f","t","k","e","y","s","e","t">>, converter_f |-> "NULL"],
  [name |-> "name", field |-> "name", offset |-> 1, type |-> SCCP_CONFIG_DATATYPE_STRING,
   flags |-> SCCP_CONFIG_FLAG_NONE, change |-> SCCP_CONFIG_NOUPDATENEEDED,
   defaultValue |-> NULL, converter_f |-> "NULL"],
  [name |-> "connected", field |-> "modes[0]", offset |-> 1, type |-> SCCP_CONFIG_DATATYPE_STRING,
   flags |-> SCCP_CONFIG_FLAG_NONE, change |-> SCCP_CONFIG_NOUPDATENEEDED,
   defaultValue |-> <<"h","o","l","d",",","e","n","d","c","a","l","l",",","p","a","r","k",",","s","e","l","e","c","t",",","c","f","w","d","a","l","l",",","c","f","w","d","b","u","s","y",",","i","d","i","v","e","r","t">>, converter_f |-> "NULL"],
  [name |-> "onhold", field |-> "modes[1]", offset |-> 1, type |-> SCCP_CONFIG_DATATYPE_STRING,
   flags |-> SCCP_CONFIG_FLAG_NONE, change |-> SCCP_CONFIG_NOUPDATENEEDED,
   defaultValue |-> <<"r","e","s","u","m","e",",","n","e","w","c","a","l","l",",","e","n","d","c","a","l","l",",","t","r","a","n","s","f","e","r",",","c","o","n","f","l","i","s","t",",","s","e","l","e","c","t",",","d","i","r","t","r","f","r",",","i","d","i","v","e","r","t",",","m","e","e","t","m","e">>, converter_f |-> "NULL"],
  [name |-> "ringin", field |-> "modes[2]", offset |-> 1, type |-> SCCP_CONFIG_DATATYPE_STRING,
   flags |-> SCCP_CONFIG_FLAG_NONE, change |-> SCCP_CONFIG_NOUPDATENEEDED,
   defaultValue |-> <<"a","n","s","w","e","r",",","e","n","d","c","a","l","l",",","t","r","a","n","s","v","m",",","i","d","i","v","e","r","t">>, converter_f |-> "NULL"],
  [name |-> "offhook", field |-> "modes[3]", offset |-> 1, type |-> SCCP_CONFIG_DATATYPE_STRING,
   flags |-> SCCP_CONFIG_FLAG_NONE, change |-> SCCP_CONFIG_NOUPDATENEEDED,
   defaultValue |-> <<"r","e","d","i","a","l",",","e","n","d","c","a","l","l",",","p","r","i","v","a","t","e",",","c","f","w","d","a","l","l",",","c","f","w","d","b","u","s","y",",","p","i","c","k","u","p",",","g","p","i","c","k","u","p",",","m","e","e","t","m","e",",","b","a","r","g","e">>, converter_f |-> "NULL"],
  [name |-> "conntrans", field |-> "modes[4]", offset |-> 1, type |-> SCCP_CONFIG_DATATYPE_STRING,
   flags |-> SCCP_CONFIG_FLAG_NONE, change |-> SCCP_CONFIG_NOUPDATENEEDED,
   defaultValue |-> <<"h","o","l","d",",","e","n","d","c","a","l","l",",","t","r","a","n","s","f","e","r",",","c","o","n","f",",","p","a","r","k",",","s","e","l","e","c","t",",","d","i","r","t","r","f","r",",","m","e","e","t","m","e",",","c","f","w","d","a","l","l",",","c","f","w","d","b","u","s","y">>, converter_f |-> "NULL"],
  [name |-> "digitsfoll", field |-> "modes[5]", offset |-> 1, type |-> SCCP_CONFIG_DATATYPE_STRING,
   flags |-> SCCP_CONFIG_FLAG_NONE, change |-> SCCP_CONFIG_NOUPDATENEEDED,
   defaultValue |-> <<"b","a","c","k",",","e","n","d","c","a","l","l">>, converter_f |-> "NULL"],
  [name |-> "connconf", field |-> "modes[6]", offset |-> 1, type |-> SCCP_CONFIG_DATATYPE_STRING,
   flags |-> SCCP_CONFIG_FLAG_NONE, change |-> SCCP_CONFIG_NOUPDATENEEDED,
   defaultValue |-> <<"c","o","n","f","l","i","s","t",",","e","n","d","c","a","l","l",",","j","o","i","n",",","h","o","l","d">>, converter_f |-> "NULL"],
  [name |-> "ringout", field |-> "modes[7]", offset |-> 1, type |-> SCCP_CONFIG_DATATYPE_STRING,
   flags |-> SCCP_CONFIG_FLAG_NONE, change |-> SCCP_CONFIG_NOUPDATENEEDED,
   defaultValue |-> <<"e","n","d","c","a","l","l",",","t","r","a","n","s","f","e","r",",","c","f","w","d","a","l","l",",","i","d","i","v","e","r","t">>, converter_f |-> "NULL"],
  [name |-> "offhookfeat", field |-> "modes[8]", offset |-> 1, type |-> SCCP_CONFIG_DATATYPE_STRING,
   flags |-> SCCP_CONFIG_FLAG_NONE, change |-> SCCP_CONFIG_NOUPDATENEEDED,
   defaultValue |-> <<"r","e","d","i","a","l",",","e","n","d","c","a","l","l">>, converter_f |-> "NULL"],
  [name |-> "onhint", field |-> "modes[9]", offset |-> 1, type |-> SCCP_CONFIG_DATATYPE_STRING,
   flags |-> SCCP_CONFIG_FLAG_NONE, change |-> SCCP_CONFIG_NOUPDATENEEDED,
   defaultValue |-> <<"n","e","w","c","a","l","l",",","p","i","c","k","u","p",",","b","a","r","g","e">>, converter_f |-> "NULL"],
  [name |-> "onstealable", field |-> "modes[10]", offset |-> 1, type |-> SCCP_CONFIG_DATATYPE_STRING,
   flags |-> SCCP_CONFIG_FLAG_NONE, change |-> SCCP_CONFIG_NOUPDATENEEDED,
   defaultValue |-> <<"r","e","d","i","a","l",",","n","e","w","c","a","l","l",",","c","f","w","d","a","l","l",",","p","i","c","k","u","p",",","g","p","i","c","k","u","p",",","d","n","d",",","i","n","t","r","c","p","t">>, converter_f |-> "NULL"]
  >>


\* sccpConfigSegments / sccp_find_segment: the option table of a segment
sccp_find_segment(segment) ==
  CASE segment = SCCP_CONFIG_GLOBAL_SEGMENT -> sccpGlobalConfigOptions
    [] segment = SCCP_CONFIG_DEVICE_SEGMENT -> sccpDeviceConfigOptions
    [] segment = SCCP_CONFIG_LINE_SEGMENT -> sccpLineConfigOptions
    [] segment = SCCP_CONFIG_SOFTKEY_SEGMENT -> sccpSoftKeyConfigOptions

\* strcasecmp on option names: names that carry upper-case letters, in the
\* tables or in the supplied pairs, fold to their lower-case spelling
NameFoldMap ==
  ("dndFeature" :> "dndfeature") @@ ("useRedialMenu" :> "useredialmenu") @@
  ("adhocNumber" :> "adhocnumber") @@
  ("defaultSubscriptionId_name" :> "defaultsubscriptionid_name") @@
  ("defaultSubscriptionId_number" :> "defaultsubscriptionid_number") @@
  ("KeepAlive" :> "keepalive") @@ ("Description" :> "description") @@
  ("NAT" :> "nat") @@ ("Test2" :> "test2") @@ ("DND" :> "dnd") @@
  ("SK1" :> "sk1") @@ ("OnHook" :> "onhook")

FoldName(n) == IF n \in DOMAIN NameFoldMap THEN NameFoldMap[n] ELSE n

NameCaseEq(a, b) == FoldName(a) = FoldName(b)

\* the case-folded names of a segment's table, in table order
FoldedNames(segment) ==
  The({
    [i \in 1..Len(config) |-> FoldName(config[i].name)]
    : config \in {sccp_find_segment(segment)} })

FoldedGlobalNames == FoldedNames(SCCP_CONFIG_GLOBAL_SEGMENT)
FoldedDeviceNames == FoldedNames(SCCP_CONFIG_DEVICE_SEGMENT)
FoldedLineNames == FoldedNames(SCCP_CONFIG_LINE_SEGMENT)
FoldedSoftKeyNames == FoldedNames(SCCP_CONFIG_SOFTKEY_SEGMENT)

\* the table indices whose name equals name under strcasecmp
NameMatches(segment, name) ==
  The({The({
    {i \in 1..Len(folded) : folded[i] = n}
    : n \in {FoldName(name)} })
    : folded \in {CASE segment = SCCP_CONFIG_GLOBAL_SEGMENT -> FoldedGlobalNames
                    [] segment = SCCP_CONFIG_DEVICE_SEGMENT -> FoldedDeviceNames
                    [] segment = SCCP_CONFIG_LINE_SEGMENT -> FoldedLineNames
                    [] segment = SCCP_CONFIG_SOFTKEY_SEGMENT -> FoldedSoftKeyNames} })

\* sccp_find_config(segment, name): index of the first table entry whose
\* name matches, 0 for "not found" (the NULL return)
sccp_find_config(segment, name) ==
  The({
    IF hits = {} THEN 0
    ELSE CHOOSE i \in hits : \A j \in hits : i <= j
    : hits \in {NameMatches(segment, name)} })

\* --------------------------------------------------- protocol constants
SCCP_CHANNELSTATE_OFFHOOK == 1
SCCP_CHANNELSTATE_RINGOUT == 3
SCCP_CHANNELSTATE_DIALING == 20
SCCP_CHANNELSTATE_PROGRESS == 21
SKINNY_LAMP_OFF == 1
SKINNY_LAMP_ON == 2
SKINNY_LAMP_WINK == 3
SKINNY_LAMP_FLASH == 4
SKINNY_LAMP_BLINK == 5
SCCP_DTMFMODE_INBAND == 0
SCCP_DTMFMODE_OUTOFBAND == 1
SCCP_DNDMODE_OFF == 0
SCCP_DNDMODE_REJECT == 1
SCCP_DNDMODE_SILENT == 2
SCCP_DNDMODE_USERDEFINED == 3
SKINNY_DEVICETYPE_CISCO7914 == 124
SKINNY_DEVICETYPE_CISCO7915 == 228
SKINNY_DEVICETYPE_CISCO7916 == 230
DEFAULT_SCCP_PORT == 2000
\* sccp_blindtransferindication_t and call_answer_order_t
SCCP_BLINDTRANSFER_RING == 0
SCCP_BLINDTRANSFER_MOH == 1
ANSWER_LAST_FIRST == 1
ANSWER_OLDEST_FIRST == 2

\* ------------------------------------------------ collaborators of the PBX
\* decimal text of a small natural number
RECURSIVE itoa(_)
itoa(n) == IF n < 10 THEN <<DigitChars[n + 1]>>
           ELSE itoa(n \div 10) \o <<DigitChars[(n % 10) + 1]>>

\* split s at every occurrence of character c
RECURSIVE Split(_, _)
Split(s, c) ==
  The({
    IF k = 0 THEN <<s>>
    ELSE <<SubSeq(s, 1, k - 1)>> \o Split(SubSeq(s, k + 1, Len(s)), c)
    : k \in {IndexOf(s, c, 1)} })

AllDigits(s) == s # <<>> /\ \A i \in 1..Len(s) : IsDigit(s[i])

\* pbx_gethostbyname(value): the raw address (four octets) or NULL; dotted
\* quads resolve to themselves, "localhost" to the loopback address
pbx_gethostbyname(value) ==
  The({
    IF Len(parts) = 4 /\ \A i \in 1..4 : AllDigits(parts[i]) /\ atoi(parts[i]) <= 255
    THEN [i \in 1..4 |-> atoi(parts[i])]
    ELSE IF StrLower(value) = <<"l","o","c","a","l","h","o","s","t">>
    THEN <<127, 0, 0, 1>>
    ELSE NULL
    : parts \in {Split(value, ".")} })

\* pbx_inet_ntoa(sin_addr): dotted text of a raw address
pbx_inet_ntoa(a) ==
  itoa(a[1]) \o <<".">> \o itoa(a[2]) \o <<".">> \o itoa(a[3]) \o <<".">> \o itoa(a[4])

\* htons / ntohs on a little-endian host
htons(p) == (p % 256) * 256 + ((p \div 256) % 256)
ntohs(p) == htons(p)

\* ~0 stored in the status word, read back as a signed 32-bit number
AllBitsSet == 0 - 1

\* sccp_parse_debugline: numeric level or a category word
sccp_parse_debugline(value) ==
  The({The({
    IF n.ok THEN n.n
    ELSE IF w = <<"c","o","r","e">> THEN 1
    ELSE IF w = <<"s","c","c","p">> THEN 2
    ELSE IF w = <<"a","l","l">> THEN AllBitsSet
    ELSE 0
    : w \in {StrLower(value)} })
    : n \in {sscanf_i(value)} })

\* codec names known to sccp_parse_allow_disallow
CodecNames == { <<"a","l","l">>, <<"a","l","a","w">>, <<"u","l","a","w">>, <<"g","7","2","9">> }

RECURSIVE SeqWithout(_, _)
SeqWithout(s, x) ==
  IF s = <<>> THEN <<>>
  ELSE IF s[1] = x THEN SeqWithout(Tail(s), x)
  ELSE <<s[1]>> \o SeqWithout(Tail(s), x)

InSeq(s, x) == \E i \in 1..Len(s) : s[i] = x

\* sccp_parse_allow_disallow(prefs, NULL, value, allow): [ok, prefs]
sccp_parse_allow_disallow(prefs, value, allow) ==
  The({
    IF w \notin CodecNames THEN [ok |-> FALSE, prefs |-> prefs]
    ELSE IF allow
    THEN [ok |-> TRUE, prefs |-> IF InSeq(prefs, w) THEN prefs ELSE Append(prefs, w)]
    ELSE [ok |-> TRUE, prefs |-> IF w = <<"a","l","l">> THEN <<>> ELSE SeqWithout(prefs, w)]
    : w \in {StrLower(value)} })

\* sccp_append_ha(sense, stuff, path, NULL) with its result thrown away: a
\* NULL list stays NULL for the caller, a non-empty list grows at its tail
sccp_append_ha(sense, stuff, path) ==
  IF path = NULL THEN NULL ELSE Append(path, [sense |-> sense, stuff |-> stuff])

\* pbx_str2tos(value, &tos): DSCP class names; ok = (return value 0)
pbx_str2tos(value) ==
  The({
    IF w = <<"e","f">> THEN [ok |-> TRUE, tos |-> 184]
    ELSE IF w = <<"a","f","3","1">> THEN [ok |-> TRUE, tos |-> 104]
    ELSE IF w = <<"a","f","4","1">> THEN [ok |-> TRUE, tos |-> 136]
    ELSE IF w = <<"c","s","0">> THEN [ok |-> TRUE, tos |-> 0]
    ELSE [ok |-> FALSE, tos |-> 0]
    : w \in {StrLower(value)} })

IPTOS_LOWDELAY == 16
IPTOS_THROUGHPUT == 8
IPTOS_RELIABILITY == 4
IPTOS_MINCOST == 2

\* pbx_cdr_amaflags2int(value)
pbx_cdr_amaflags2int(value) ==
  The({
    IF w = <<"o","m","i","t">> THEN 1
    ELSE IF w = <<"b","i","l","l","i","n","g">> THEN 2
    ELSE IF w = <<"d","o","c","u","m","e","n","t","a","t","i","o","n">> THEN 3
    ELSE 0 - 1
    : w \in {StrLower(value)} })

\* the NULL variable pointer
NoVariable == [name |-> NULL, value |-> NULL]

\* sccp_create_variable(buf): "name=value" becomes a variable, anything
\* else yields NULL
sccp_create_variable(buf) ==
  The({
    IF buf = <<>> \/ k <= 1 THEN NoVariable
    ELSE [name |-> SubSeq(buf, 1, k - 1), value |-> SubSeq(buf, k + 1, Len(buf))]
    : k \in {IndexOf(buf, "=", 1)} })

\* ------------------------------------------------------------- converters
\* A converter maps (dest, size, value) to [changed, dest]: the outcome it
\* returns and the field as it leaves it.  u carries what the code reads
\* from memory it never initialised: u.same, whether a fresh malloc block
\* happens to compare equal to the value; u.junk, the content of an
\* unassigned local.

sccp_config_parse_debug(dest, size, value, u) ==
  The({
    IF debug_new # dest
    THEN [changed |-> SCCP_CONFIG_CHANGE_CHANGED, dest |-> debug_new]
    ELSE [changed |-> SCCP_CONFIG_CHANGE_NOCHANGE, dest |-> dest]
    : debug_new \in {sccp_parse_debugline(value)} })

\* sccp_strcmp(pbx_inet_ntoa(prev), hp->h_addr): a dotted text against the
\* four raw octets of the resolved address; the two never spell the same
AddrTextEqRaw(text, raw) == FALSE

sccp_config_parse_ipaddress(dest, size, value, u) ==
  The({
    IF hp = NULL
    THEN [changed |-> SCCP_CONFIG_CHANGE_INVALIDVALUE, dest |-> dest]
    ELSE IF ~AddrTextEqRaw(pbx_inet_ntoa(dest.sin_addr), hp)
    THEN [changed |-> SCCP_CONFIG_CHANGE_CHANGED, dest |-> [dest EXCEPT !.sin_addr = hp]]
    ELSE [changed |-> SCCP_CONFIG_CHANGE_NOCHANGE, dest |-> dest]
    : hp \in {pbx_gethostbyname(value)} })

sccp_config_parse_port(dest, size, value, u) ==
  The({
    IF p.ok
    THEN IF dest.sin_port # htons(p.n % 65536)
         THEN [changed |-> SCCP_CONFIG_CHANGE_CHANGED, dest |-> [dest EXCEPT !.sin_port = htons(p.n % 65536)]]
         ELSE [changed |-> SCCP_CONFIG_CHANGE_NOCHANGE, dest |-> dest]
    ELSE [changed |-> SCCP_CONFIG_CHANGE_INVALIDVALUE, dest |-> dest]
    : p \in {sscanf_i(value)} })

sccp_config_parse_blindtransferindication(dest, size, value, u) ==
  The({The({The({The({
    IF dest # blindtransferindication
    THEN [changed |-> SCCP_CONFIG_CHANGE_CHANGED, dest |-> blindtransferindication]
    ELSE [changed |-> changed, dest |-> dest]
    : changed \in {IF isMoh \/ isRing THEN SCCP_CONFIG_CHANGE_NOCHANGE
                   ELSE SCCP_CONFIG_CHANGE_INVALIDVALUE} })
    : blindtransferindication \in {IF isMoh THEN SCCP_BLINDTRANSFER_MOH
                                   ELSE IF isRing THEN SCCP_BLINDTRANSFER_RING
                                   ELSE dest} })
    : isRing \in {StrCaseEq(value, <<"r","i","n","g">>)} })
    : isMoh \in {StrCaseEq(value, <<"m","o","h">>)} })

sccp_config_parse_callanswerorder(dest, size, value, u) ==
  IF StrCaseEq(value, <<"o","l","d","e","s","t","f","i","r","s","t">>)
  THEN IF dest # ANSWER_OLDEST_FIRST
       THEN [changed |-> SCCP_CONFIG_CHANGE_CHANGED, dest |-> ANSWER_OLDEST_FIRST]
       ELSE [changed |-> SCCP_CONFIG_CHANGE_NOCHANGE, dest |-> dest]
  ELSE IF StrCaseEq(value, <<"l","a","s","t","f","i","r","s","t">>)
  THEN IF dest # ANSWER_LAST_FIRST
       THEN [changed |-> SCCP_CONFIG_CHANGE_CHANGED, dest |-> ANSWER_LAST_FIRST]
       ELSE [changed |-> SCCP_CONFIG_CHANGE_NOCHANGE, dest |-> dest]
  ELSE [changed |-> SCCP_CONFIG_CHANGE_INVALIDVALUE, dest |-> dest]

sccp_config_parse_codec_preferences(dest, size, value, allow, u) ==
  The({
    IF ~r.ok
    THEN [changed |-> SCCP_CONFIG_CHANGE_INVALIDVALUE, dest |-> r.prefs]
    ELSE [changed |-> SCCP_CONFIG_CHANGE_CHANGED, dest |-> r.prefs]
    : r \in {sccp_parse_allow_disallow(dest, value, allow)} })

sccp_config_parse_allow_codec(dest, size, value, u) ==
  sccp_config_parse_codec_preferences(dest, size, value, TRUE, u)

sccp_config_parse_disallow_codec(dest, size, value, u) ==
  sccp_config_parse_codec_preferences(dest, size, value, FALSE, u)

sccp_config_parse_permit(dest, size, value, u) ==
  The({
    IF StrCaseEq(value, <<"i","n","t","e","r","n","a","l">>)
    THEN [changed |-> SCCP_CONFIG_CHANGE_NOCHANGE,
          dest |-> sccp_append_ha(permit, <<"1","9","2",".","1","6","8",".","1",".","0","/","2","5","5",".","2","5","5",".","2","5","5",".","0">>,
                     sccp_append_ha(permit, <<"1","7","2",".","1","6",".","0",".","0","/","2","5","5",".","2","2","4",".","0",".","0">>,
                       sccp_append_ha(permit, <<"1","0",".","0",".","0",".","0","/","2","5","5",".","0",".","0",".","0">>, dest)))]
    ELSE [changed |-> SCCP_CONFIG_CHANGE_NOCHANGE, dest |-> sccp_append_ha(permit, value, dest)]
    : permit \in {<<"p","e","r","m","i","t">>} })

sccp_config_parse_deny(dest, size, value, u) ==
  [changed |-> SCCP_CONFIG_CHANGE_NOCHANGE, dest |-> sccp_append_ha(<<"d","e","n","y">>, value, dest)]

sccp_config_parse_permithosts(dest, size, value, u) ==
  IF ~u.same
  THEN [changed |-> SCCP_CONFIG_CHANGE_CHANGED,
        dest |-> <<[name |-> pbx_copy_string(value, FieldSize)]>> \o dest]
  ELSE [changed |-> SCCP_CONFIG_CHANGE_NOCHANGE, dest |-> dest]

sccp_config_parse_addons(dest, size, value, u) ==
  The({The({
    IF ~known
    THEN [changed |-> SCCP_CONFIG_CHANGE_INVALIDVALUE, dest |-> dest]
    ELSE [changed |-> SCCP_CONFIG_CHANGE_CHANGED, dest |-> <<[type |-> addon_type]>> \o dest]
    : addon_type \in {IF StrCaseEq(value, <<"7","9","1","4">>) THEN SKINNY_DEVICETYPE_CISCO7914
                      ELSE IF StrCaseEq(value, <<"7","9","1","5">>) THEN SKINNY_DEVICETYPE_CISCO7915
                      ELSE SKINNY_DEVICETYPE_CISCO7916} })
    : known \in {StrCaseEq(value, <<"7","9","1","4">>) \/ StrCaseEq(value, <<"7","9","1","5">>)
                 \/ StrCaseEq(value, <<"7","9","1","6">>)} })

sccp_config_parse_privacyFeature(dest, size, value, u) ==
  The({
    IF privacyFeature.status # dest.status \/ privacyFeature.enabled # dest.enabled
    THEN [changed |-> SCCP_CONFIG_CHANGE_CHANGED, dest |-> privacyFeature]
    ELSE [changed |-> SCCP_CONFIG_CHANGE_NOCHANGE, dest |-> dest]
    : privacyFeature \in {IF StrCaseEq(value, <<"f","u","l","l">>)
                          THEN [status |-> AllBitsSet, enabled |-> 1]
                          ELSE [status |-> 0, enabled |-> sccp_true(value)]} })

\* shape shared by earlyrtp, dtmfmode and mwilamp: a keyword table, a zero
\* fallback for an unknown word, then an unconditional compare-and-store
KeywordStore(dest, value, words, codes) ==
  The({The({The({
    IF dest # new
    THEN [changed |-> SCCP_CONFIG_CHANGE_CHANGED, dest |-> new]
    ELSE [changed |-> changed, dest |-> dest]
    : changed \in {IF hits = {} THEN SCCP_CONFIG_CHANGE_INVALIDVALUE ELSE SCCP_CONFIG_CHANGE_NOCHANGE} })
    : new \in {IF hits = {} THEN 0 ELSE codes[CHOOSE i \in hits : \A j \in hits : i <= j]} })
    : hits \in {{i \in 1..Len(words) : StrCaseEq(value, words[i])}} })

sccp_config_parse_earlyrtp(dest, size, value, u) ==
  KeywordStore(dest, value,
    << <<"n","o","n","e">>, <<"o","f","f","h","o","o","k">>, <<"d","i","a","l">>,
       <<"r","i","n","g","o","u","t">>, <<"p","r","o","g","r","e","s","s">> >>,
    <<0, SCCP_CHANNELSTATE_OFFHOOK, SCCP_CHANNELSTATE_DIALING,
      SCCP_CHANNELSTATE_RINGOUT, SCCP_CHANNELSTATE_PROGRESS>>)

sccp_config_parse_dtmfmode(dest, size, value, u) ==
  KeywordStore(dest, value,
    << <<"o","u","t","o","f","b","a","n","d">>, <<"i","n","b","a","n","d">> >>,
    <<SCCP_DTMFMODE_OUTOFBAND, SCCP_DTMFMODE_INBAND>>)

sccp_config_parse_mwilamp(dest, size, value, u) ==
  KeywordStore(dest, value,
    << <<"o","f","f">>, <<"o","n">>, <<"w","i","n","k">>, <<"f","l","a","s","h">>,
       <<"b","l","i","n","k">> >>,
    <<SKINNY_LAMP_OFF, SKINNY_LAMP_ON, SKINNY_LAMP_WINK, SKINNY_LAMP_FLASH, SKINNY_LAMP_BLINK>>)

sccp_config_parse_mailbox(dest, size, value, u) ==
  The({The({The({The({
    IF ~mailbox_exists /\ ~sccp_strlen_zero(mbox)
    THEN [changed |-> SCCP_CONFIG_CHANGE_CHANGED,
          dest |-> Append(dest, [mailbox |-> mbox, context |-> context])]
    ELSE [changed |-> SCCP_CONFIG_CHANGE_CHANGED, dest |-> dest]
    : mailbox_exists \in {\E i \in 1..Len(dest) : StrEq(dest[i].mailbox, mbox)} })
    : context \in {sp.rest} })
    : mbox \in {sp.tok} })
    : sp \in {strsep(value, "@")} })

sccp_config_parse_tos(dest, size, value, u) ==
  The({The({The({The({The({
    IF dest # tos
    THEN [changed |-> SCCP_CONFIG_CHANGE_CHANGED, dest |-> tos]
    ELSE [changed |-> IF valid THEN SCCP_CONFIG_CHANGE_NOCHANGE ELSE SCCP_CONFIG_CHANGE_INVALIDVALUE,
          dest |-> dest]
    : valid \in {named.ok \/ num.ok
                 \/ word \in { <<"l","o","w","d","e","l","a","y">>, <<"t","h","r","o","u","g","h","p","u","t">>,
                               <<"r","e","l","i","a","b","i","l","i","t","y">>, <<"m","i","n","c","o","s","t">>,
                               <<"n","o","n","e">> }} })
    : tos \in {IF named.ok THEN named.tos
               ELSE IF num.ok THEN num.n % 256
               ELSE IF word = <<"l","o","w","d","e","l","a","y">> THEN IPTOS_LOWDELAY
               ELSE IF word = <<"t","h","r","o","u","g","h","p","u","t">> THEN IPTOS_THROUGHPUT
               ELSE IF word = <<"r","e","l","i","a","b","i","l","i","t","y">> THEN IPTOS_RELIABILITY
               ELSE IF word = <<"m","i","n","c","o","s","t">> THEN IPTOS_MINCOST
               ELSE IF word = <<"n","o","n","e">> THEN 0
               ELSE 104} })
    : word \in {StrLower(value)} })
    : num \in {sscanf_i(value)} })
    : named \in {pbx_str2tos(value)} })

sccp_config_parse_cos(dest, size, value, u) ==
  The({The({
    IF p.ok /\ (cos < 0 \/ cos > 7)
    THEN [changed |-> SCCP_CONFIG_CHANGE_INVALIDVALUE, dest |-> dest]
    ELSE IF dest # cos
    THEN [changed |-> SCCP_CONFIG_CHANGE_CHANGED, dest |-> cos]
    ELSE [changed |-> SCCP_CONFIG_CHANGE_NOCHANGE, dest |-> dest]
    : cos \in {IF p.ok THEN p.n ELSE u.junk} })
    : p \in {sscanf_d(value)} })

sccp_config_parse_amaflags(dest, size, value, u) ==
  The({
    IF amaflags < 0
    THEN [changed |-> SCCP_CONFIG_CHANGE_INVALIDVALUE, dest |-> dest]
    ELSE IF dest # amaflags
    THEN [changed |-> SCCP_CONFIG_CHANGE_CHANGED, dest |-> amaflags]
    ELSE [changed |-> SCCP_CONFIG_CHANGE_NOCHANGE, dest |-> dest]
    : amaflags \in {pbx_cdr_amaflags2int(value)} })

sccp_config_parse_smallint(dest, size, value, u) ==
  The({
    IF p.ok /\ p.n >= 0 /\ p.n <= 255
    THEN IF dest # p.n
         THEN [changed |-> SCCP_CONFIG_CHANGE_CHANGED, dest |-> p.n]
         ELSE [changed |-> SCCP_CONFIG_CHANGE_NOCHANGE, dest |-> dest]
    ELSE [changed |-> SCCP_CONFIG_CHANGE_INVALIDVALUE, dest |-> dest]
    : p \in {sscanf_i(value)} })

sccp_config_parse_secondaryDialtoneDigits(dest, size, value, u) ==
  IF Len(value) <= 9
  THEN IF ~StrCaseEq(dest, value)
       THEN [changed |-> SCCP_CONFIG_CHANGE_CHANGED, dest |-> pbx_copy_string(value, 9)]
       ELSE [changed |-> SCCP_CONFIG_CHANGE_NOCHANGE, dest |-> dest]
  ELSE [changed |-> SCCP_CONFIG_CHANGE_INVALIDVALUE, dest |-> dest]

sccp_config_parse_variables(dest, size, value, u) ==
  The({
    IF newvar # NoVariable
    THEN [changed |-> SCCP_CONFIG_CHANGE_CHANGED, dest |-> <<newvar>> \o dest]
    ELSE [changed |-> SCCP_CONFIG_CHANGE_NOCHANGE, dest |-> dest]
    : newvar \in {sccp_create_variable(value)} })

\* the text left after the integer that sscanf("%d") consumes
RECURSIVE DropDigits(_)
DropDigits(s) == IF s # <<>> /\ IsDigit(s[1]) THEN DropDigits(Tail(s)) ELSE s
RestAfterInt(s) ==
  The({The({
    DropDigits(w)
    : w \in {IF t # <<>> /\ t[1] \in {"-", "+"} THEN Tail(t) ELSE t} })
    : t \in {SkipSpace(s)} })

\* sscanf(piece, "%30d-%30d", &start, &finish) and, when that does not
\* convert two numbers, sscanf(piece, "%30d", &start): [n, start, finish]
\* with n the count the deciding call returns (-1 for EOF on an empty piece)
ScanGroupPiece(piece, start, finish) ==
  The({The({The({
    IF SkipSpace(piece) = <<>> THEN [n |-> 0 - 1, start |-> start, finish |-> start]
    ELSE IF ~a.ok THEN [n |-> 0, start |-> start, finish |-> finish]
    ELSE IF b.ok THEN [n |-> 2, start |-> a.n, finish |-> b.n]
    ELSE [n |-> 1, start |-> a.n, finish |-> a.n]
    : b \in {IF a.ok /\ rest # <<>> /\ rest[1] = "-" THEN sscanf_d(Tail(rest)) ELSE [ok |-> FALSE, n |-> 0]} })
    : rest \in {RestAfterInt(piece)} })
    : a \in {sscanf_d(piece)} })

RECURSIVE GroupPieces(_, _, _, _)
GroupPieces(pieces, start, finish, group) ==
  IF pieces = <<>> THEN group
  ELSE The({
         IF r.n = 0 THEN GroupPieces(Tail(pieces), r.start, r.finish, group)
         ELSE GroupPieces(Tail(pieces), r.start, r.finish,
                          group \cup {x \in r.start..r.finish : x >= 0 /\ x <= 63})
         : r \in {ScanGroupPiece(pieces[1], start, finish)} })

sccp_config_parse_group(dest, size, value, u) ==
  The({
    IF dest # group
    THEN [changed |-> SCCP_CONFIG_CHANGE_CHANGED, dest |-> group]
    ELSE [changed |-> SCCP_CONFIG_CHANGE_NOCHANGE, dest |-> dest]
    : group \in {IF ~sccp_strlen_zero(value) THEN GroupPieces(Split(value, ","), 0, 0, {}) ELSE {}} })

sccp_config_parse_context(dest, size, value, u) ==
  IF ~StrCaseEq(dest, value)
  THEN [changed |-> SCCP_CONFIG_CHANGE_CHANGED, dest |-> pbx_copy_string(value, size)]
  ELSE [changed |-> SCCP_CONFIG_CHANGE_NOCHANGE, dest |-> dest]

sccp_config_parse_dnd(dest, size, value, u) ==
  The({
    IF dest # dndmode
    THEN [changed |-> SCCP_CONFIG_CHANGE_CHANGED, dest |-> dndmode]
    ELSE [changed |-> SCCP_CONFIG_CHANGE_NOCHANGE, dest |-> dest]
    : dndmode \in {IF StrCaseEq(value, <<"r","e","j","e","c","t">>) THEN SCCP_DNDMODE_REJECT
                   ELSE IF StrCaseEq(value, <<"s","i","l","e","n","t">>) THEN SCCP_DNDMODE_SILENT
                   ELSE IF StrCaseEq(value, <<"u","s","e","r">>) THEN SCCP_DNDMODE_USERDEFINED
                   ELSE IF StrCaseEq(value, <<>>) THEN SCCP_DNDMODE_OFF
                   ELSE sccp_true(value)} })

\* ---------------------------------------------------------------- buttons
\* button_type_t in declaration order
LINE == 0
SPEEDDIAL == 1
SERVICE == 2
FEATURE == 3
EMPTY == 4

\* sccp_buttontypes[]: the words accepted in front of the first comma
sccp_buttontypes ==
  << [buttontype |-> LINE, text |-> <<"l","i","n","e">>],
     [buttontype |-> SPEEDDIAL, text |-> <<"s","p","e","e","d","d","i","a","l">>],
     [buttontype |-> SERVICE, text |-> <<"s","e","r","v","i","c","e">>],
     [buttontype |-> FEATURE, text |-> <<"f","e","a","t","u","r","e">>],
     [buttontype |-> EMPTY, text |-> <<"e","m","p","t","y">>] >>

\* sccp_calloc(1, sizeof(sccp_buttonconfig_t))
ZeroButton ==
  [index |-> 0, type |-> 0, label |-> <<>>, pendingDelete |-> 0, pendingUpdate |-> 0,
   name |-> <<>>, subNumber |-> <<>>, subName |-> <<>>, aux |-> <<>>, options |-> <<>>,
   ext |-> <<>>, hint |-> <<>>, url |-> <<>>, id |-> <<>>, featureOptions |-> <<>>]

\* sccp_parseComposedId(name, 80): mainId[@number[:name]]
sccp_parseComposedId(name) ==
  The({The({
    [mainId |-> at.tok, number |-> sub.tok,
     name |-> IF sub.rest = NULL THEN <<>> ELSE sub.rest, aux |-> <<>>]
    : sub \in {IF at.rest = NULL THEN [tok |-> <<>>, rest |-> NULL] ELSE strsep(at.rest, ":")} })
    : at \in {strsep(name, "@")} })

sccp_featureStr2featureID(options) == StrLower(options)

\* position of the first pendingDelete button of this type that is EMPTY or
\* carries this label (0: the traversal runs to the end)
FindReplaceable(list, type, name) ==
  The({
    IF hits = {} THEN 0 ELSE CHOOSE i \in hits : \A j \in hits : i <= j
    : hits \in {{i \in 1..Len(list) :
                   list[i].pendingDelete # 0 /\ list[i].type = type
                   /\ (list[i].type = EMPTY \/ StrEq(list[i].label, name))}} })

\* the switch (type) of sccp_config_addButton on the selected entry:
\* [changes, config]
ButtonStore(config, type, name, options, args, changes) ==
  The({
    CASE type = LINE ->
           IF config.type = LINE /\ StrEq(config.label, name) /\ StrEq(config.name, cid.mainId)
              /\ StrCaseEq(config.subNumber, cid.number) /\ StrEq(config.subName, cid.name)
              /\ StrEq(config.aux, cid.aux)
           THEN [changes |-> SCCP_CONFIG_CHANGE_NOCHANGE, config |-> config]
           ELSE [changes |-> changes,
                 config |-> [config EXCEPT !.type = LINE,
                               !.label = pbx_copy_string(name, FieldSize),
                               !.name = pbx_copy_string(cid.mainId, FieldSize),
                               !.subNumber = pbx_copy_string(cid.number, FieldSize),
                               !.subName = pbx_copy_string(cid.name, FieldSize),
                               !.aux = pbx_copy_string(cid.aux, FieldSize),
                               !.options = IF options # NULL THEN pbx_copy_string(options, FieldSize) ELSE @]]
      [] type = SPEEDDIAL ->
           IF config.type = SPEEDDIAL /\ StrEq(config.label, name) /\ StrEq(config.ext, options)
              /\ (args = NULL \/ StrEq(config.hint, args))
           THEN [changes |-> SCCP_CONFIG_CHANGE_NOCHANGE, config |-> config]
           ELSE [changes |-> changes,
                 config |-> [config EXCEPT !.type = SPEEDDIAL,
                               !.label = pbx_copy_string(name, FieldSize),
                               !.ext = pbx_copy_string(options, FieldSize),
                               !.hint = IF args # NULL THEN pbx_copy_string(args, FieldSize) ELSE @]]
      [] type = SERVICE ->
           IF config.type = SERVICE /\ StrEq(config.label, name) /\ StrEq(config.url, options)
           THEN [changes |-> SCCP_CONFIG_CHANGE_NOCHANGE, config |-> config]
           ELSE [changes |-> changes,
                 config |-> [config EXCEPT !.type = SERVICE,
                               !.label = pbx_copy_string(name, FieldSize),
                               !.url = pbx_copy_string(options, FieldSize)]]
      [] type = FEATURE ->
           IF config.type = FEATURE /\ StrEq(config.label, name)
              /\ config.id = sccp_featureStr2featureID(options)
              /\ (args = NULL \/ StrEq(config.featureOptions, args))
           THEN [changes |-> SCCP_CONFIG_CHANGE_NOCHANGE, config |-> config]
           ELSE [changes |-> changes,
                 config |-> [config EXCEPT !.type = FEATURE,
                               !.label = pbx_copy_string(name, FieldSize),
                               !.id = sccp_featureStr2featureID(options),
                               !.featureOptions = IF args # NULL THEN pbx_copy_string(args, FieldSize) ELSE @]]
      [] OTHER ->
           IF config.type = EMPTY
           THEN [changes |-> SCCP_CONFIG_CHANGE_NOCHANGE, config |-> config]
           ELSE [changes |-> changes, config |-> [config EXCEPT !.type = EMPTY]]
    : cid \in {sccp_parseComposedId(name)} })

\* sccp_config_addButton from SCCP_LIST_LOCK to SCCP_LIST_UNLOCK: the
\* traversal, then the new zeroed entry linked at the tail or the entry
\* found taken off the pending-delete mark: [list, pos, changes]
ButtonLink(list, index0, type0, name) ==
  The({The({The({
    IF found = 0
    THEN [list |-> Append(list, [ZeroButton EXCEPT !.index = index]),
          pos |-> Len(list) + 1, changes |-> SCCP_CONFIG_NOUPDATENEEDED]
    ELSE [list |-> [list EXCEPT ![found] = [@ EXCEPT !.pendingDelete = 0, !.pendingUpdate = 1]],
          pos |-> found, changes |-> SCCP_CONFIG_CHANGE_CHANGED]
    : index \in {IF found # 0 THEN list[found].index
                 ELSE IF index0 < 0 THEN highest_index + 1 ELSE index0} })
    : highest_index \in {IF Len(list) = 0 THEN 0 ELSE list[Len(list)].index} })
    : found \in {IF index0 = 0 THEN FindReplaceable(list, type0, name) ELSE 0} })

\* sccp_config_addButton after SCCP_LIST_UNLOCK: the test for a faulty
\* button and the switch (type) on the entry config: [changes, config]
ButtonFill(config, type0, name, options, args, changes0) ==
  The({
    ButtonStore(config, IF faulty THEN EMPTY ELSE type0, name, options, args,
                IF faulty THEN SCCP_CONFIG_CHANGE_INVALIDVALUE ELSE changes0)
    : faulty \in {sccp_strlen_zero(name) \/ (type0 # LINE /\ options = NULL)} })

\* sccp_config_addButton(list, index, type, name, options, args):
\* [changes, list]
sccp_config_addButton(list, index0, type0, name, options, args) ==
  The({The({The({The({The({The({The({The({The({The({The({
    [changes |-> r.changes,
     list |-> IF isNew THEN Append(list, r.config) ELSE [list EXCEPT ![pos] = r.config]]
    : r \in {ButtonStore(config0, type, name, options, args, changes1)} })
    : changes1 \in {IF faulty THEN SCCP_CONFIG_CHANGE_INVALIDVALUE ELSE changes0} })
    : type \in {IF faulty THEN EMPTY ELSE type0} })
    : faulty \in {sccp_strlen_zero(name) \/ (type0 # LINE /\ options = NULL)} })
    : changes0 \in {IF isNew THEN SCCP_CONFIG_NOUPDATENEEDED ELSE SCCP_CONFIG_CHANGE_CHANGED} })
    : config0 \in {IF isNew THEN [ZeroButton EXCEPT !.index = index]
                   ELSE [list[found] EXCEPT !.pendingDelete = 0, !.pendingUpdate = 1]} })
    : pos \in {IF isNew THEN Len(list) + 1 ELSE found} })
    : isNew \in {found = 0} })
    : index \in {IF found # 0 THEN list[found].index
                 ELSE IF index0 < 0 THEN highest_index + 1 ELSE index0} })
    : highest_index \in {IF Len(list) = 0 THEN 0 ELSE list[Len(list)].index} })
    : found \in {IF index0 = 0 THEN FindReplaceable(list, type0, name) ELSE 0} })

\* sccp_config_parse_button without the search of sccp_buttontypes: the
\* whole value names a button of no type
ParseButtonOfAnyType(dest, size, value, u) ==
  The({
    [changed |-> r.changes, dest |-> r.list]
    : r \in {sccp_config_addButton(dest, 0, EMPTY, pbx_copy_string(value, 256), NULL, NULL)} })

\* sccp_config_parse_button(dest, size, value, segment): [changed, dest]
sccp_config_parse_button(dest, size, value, u) ==
  The({The({The({The({The({The({The({The({The({
    IF hits = {}
    THEN [changed |-> SCCP_CONFIG_CHANGE_INVALIDVALUE, dest |-> dest]
    ELSE The({The({
           [changed |-> r.changes, dest |-> r.list]
           : r \in {sccp_config_addButton(dest, 0, type,
                      IF buttonName # NULL THEN pbx_strip(buttonName) ELSE buttonType,
                      IF buttonOption # NULL THEN pbx_strip(buttonOption) ELSE NULL,
                      IF buttonArgs # NULL THEN pbx_strip(buttonArgs) ELSE NULL)} })
           : type \in {sccp_buttontypes[CHOOSE i \in hits : TRUE].buttontype} })
    : hits \in {{i \in 1..Len(sccp_buttontypes) : StrCaseEq(buttonType, sccp_buttontypes[i].text)}} })
    : buttonArgs \in {s3.rest} })
    : buttonOption \in {s3.tok} })
    : buttonName \in {s2.tok} })
    : buttonType \in {s1.tok} })
    : s3 \in {IF s2.rest = NULL THEN [tok |-> NULL, rest |-> NULL] ELSE strsep(s2.rest, ",")} })
    : s2 \in {IF s1.rest = NULL THEN [tok |-> NULL, rest |-> NULL] ELSE strsep(s1.rest, ",")} })
    : s1 \in {strsep(k_button, ",")} })
    : k_button \in {pbx_copy_string(value, 256)} })

\* ------------------------------------------------------------------ objects
\* An object (sccp_globals, a device, a line) is a function from member
\* names to member values; a table entry addresses a member, or a member
\* of a member, through its OBJ_REF path.
FieldPath(field) ==
  CASE field = "dndFeature.enabled" -> <<"dndFeature", "enabled">>
    [] field = "privacyFeature.enabled" -> <<"privacyFeature", "enabled">>
    [] field = "monitorFeature.enabled" -> <<"monitorFeature", "enabled">>
    [] field = "overlapFeature.enabled" -> <<"overlapFeature", "enabled">>
    [] field = "defaultSubscriptionId.name" -> <<"defaultSubscriptionId", "name">>
    [] field = "defaultSubscriptionId.number" -> <<"defaultSubscriptionId", "number">>
    [] OTHER -> <<field>>

\* *dst
FieldGet(obj, field) ==
  The({
    IF Len(p) = 1 THEN obj[p[1]] ELSE obj[p[1]][p[2]]
    : p \in {FieldPath(field)} })

\* *dst = val
FieldSet(obj, field, val) ==
  The({
    IF Len(p) = 1 THEN [obj EXCEPT ![p[1]] = val]
    ELSE [obj EXCEPT ![p[1]] = [@ EXCEPT ![p[2]] = val]]
    : p \in {FieldPath(field)} })

\* the all-zero content of the member a table entry addresses
ZeroOfOption(o) ==
  The({
    IF Len(p) = 2
    THEN IF p[1] = "defaultSubscriptionId" THEN [name |-> <<>>, number |-> <<>>]
         ELSE [enabled |-> 0, status |-> 0]
    ELSE CASE o.type = SCCP_CONFIG_DATATYPE_STRING -> <<>>
           [] o.type = SCCP_CONFIG_DATATYPE_STRINGPTR -> NULL
           [] o.type = SCCP_CONFIG_DATATYPE_CHAR -> ""
           [] o.type = SCCP_CONFIG_DATATYPE_GENERIC ->
                (CASE o.converter_f \in {"sccp_config_parse_addons", "sccp_config_parse_permithosts",
                                        "sccp_config_parse_mailbox", "sccp_config_parse_variables",
                                        "sccp_config_parse_button", "sccp_config_parse_allow_codec",
                                        "sccp_config_parse_disallow_codec", "sccp_config_parse_context",
                                        "sccp_config_parse_secondaryDialtoneDigits"} -> <<>>
                   [] o.converter_f \in {"sccp_config_parse_permit", "sccp_config_parse_deny"} -> NULL
                   [] o.converter_f = "sccp_config_parse_ipaddress" ->
                        [sin_addr |-> <<0, 0, 0, 0>>, sin_port |-> 0]
                   [] o.converter_f = "sccp_config_parse_group" -> {}
                   [] o.converter_f = "sccp_config_parse_privacyFeature" -> [enabled |-> 0, status |-> 0]
                   [] OTHER -> 0)
           [] OTHER -> 0
    : p \in {FieldPath(o.field)} })

\* a freshly allocated, zero-filled object of a segment, named id
ZeroObject(segment, id) ==
  The({The({
    [f \in {FieldPath(config[i].field)[1] : i \in mapped}
            \cup {"id", "pendingDelete", "pendingUpdate"} |->
       IF f = "id" THEN id
       ELSE IF f \in {"pendingDelete", "pendingUpdate"} THEN 0
       ELSE ZeroOfOption(config[CHOOSE i \in mapped :
                                  /\ FieldPath(config[i].field)[1] = f
                                  /\ \A j \in mapped :
                                        FieldPath(config[j].field)[1] = f => i <= j])]
    : mapped \in {{i \in 1..Len(config) : config[i].offset # 0}} })
    : config \in {sccp_find_segment(segment)} })

\* pbx_variable_retrieve(cfg, category, variable): the value of the first
\* variable of that name in the first category of that name, or NULL
pbx_variable_retrieve(config, category, variable) ==
  The({
    IF cats = {} THEN NULL
    ELSE The({The({
           IF hits = {} THEN NULL
           ELSE vars[CHOOSE i \in hits : \A j \in hits : i <= j].value
           : hits \in {{i \in 1..Len(vars) : NameCaseEq(vars[i].name, variable)}} })
           : vars \in {config[CHOOSE c \in cats : \A k \in cats : c <= k].vars} })
    : cats \in {{c \in 1..Len(config) : NameCaseEq(config[c].name, category)}} })

\* ast_variable_browse(cfg, category): the variable list of the category
ast_variable_browse(config, category) ==
  The({
    IF cats = {} THEN <<>>
    ELSE config[CHOOSE c \in cats : \A k \in cats : c <= k].vars
    : cats \in {{c \in 1..Len(config) : NameCaseEq(config[c].name, category)}} })

\* ------------------------------------------------- value-application core
\* sccpConfigOption->converter_f(dst, size, value, segment)
CallConverter(o, dst, value, u) ==
  CASE o.converter_f = "sccp_config_parse_debug" -> sccp_config_parse_debug(dst, FieldSize, value, u)
    [] o.converter_f = "sccp_config_parse_ipaddress" -> sccp_config_parse_ipaddress(dst, FieldSize, value, u)
    [] o.converter_f = "sccp_config_parse_blindtransferindication" ->
         sccp_config_parse_blindtransferindication(dst, FieldSize, value, u)
    [] o.converter_f = "sccp_config_parse_callanswerorder" ->
         sccp_config_parse_callanswerorder(dst, FieldSize, value, u)
    [] o.converter_f = "sccp_config_parse_allow_codec" -> sccp_config_parse_allow_codec(dst, FieldSize, value, u)
    [] o.converter_f = "sccp_config_parse_disallow_codec" ->
         sccp_config_parse_disallow_codec(dst, FieldSize, value, u)
    [] o.converter_f = "sccp_config_parse_permit" -> sccp_config_parse_permit(dst, FieldSize, value, u)
    [] o.converter_f = "sccp_config_parse_deny" -> sccp_config_parse_deny(dst, FieldSize, value, u)
    [] o.converter_f = "sccp_config_parse_button" -> sccp_config_parse_button(dst, FieldSize, value, u)
    [] o.converter_f = "sccp_config_parse_permithosts" -> sccp_config_parse_permithosts(dst, FieldSize, value, u)
    [] o.converter_f = "sccp_config_parse_addons" -> sccp_config_parse_addons(dst, FieldSize, value, u)
    [] o.converter_f = "sccp_config_parse_privacyFeature" ->
         sccp_config_parse_privacyFeature(dst, FieldSize, value, u)
    [] o.converter_f = "sccp_config_parse_earlyrtp" -> sccp_config_parse_earlyrtp(dst, FieldSize, value, u)
    [] o.converter_f = "sccp_config_parse_dtmfmode" -> sccp_config_parse_dtmfmode(dst, FieldSize, value, u)
    [] o.converter_f = "sccp_config_parse_mwilamp" -> sccp_config_parse_mwilamp(dst, FieldSize, value, u)
    [] o.converter_f = "sccp_config_parse_mailbox" -> sccp_config_parse_mailbox(dst, FieldSize, value, u)
    [] o.converter_f = "sccp_config_parse_tos" -> sccp_config_parse_tos(dst, FieldSize, value, u)
    [] o.converter_f = "sccp_config_parse_cos" -> sccp_config_parse_cos(dst, FieldSize, value, u)
    [] o.converter_f = "sccp_config_parse_amaflags" -> sccp_config_parse_amaflags(dst, FieldSize, value, u)
    [] o.converter_f = "sccp_config_parse_smallint" -> sccp_config_parse_smallint(dst, FieldSize, value, u)
    [] o.converter_f = "sccp_config_parse_secondaryDialtoneDigits" ->
         sccp_config_parse_secondaryDialtoneDigits(dst, FieldSize, value, u)
    [] o.converter_f = "sccp_config_parse_variables" -> sccp_config_parse_variables(dst, FieldSize, value, u)
    [] o.converter_f = "sccp_config_parse_group" -> sccp_config_parse_group(dst, FieldSize, value, u)
    [] o.converter_f = "sccp_config_parse_context" -> sccp_config_parse_context(dst, FieldSize, value, u)
    [] o.converter_f = "sccp_config_parse_dnd" -> sccp_config_parse_dnd(dst, FieldSize, value, u)

\* the switch (flags) below without its case SCCP_CONFIG_FLAG_OBSOLETE: an
\* obsolete option would go on to the type switch like an ordinary one
FlagSwitchWithoutObsolete(flags, value) ==
  CASE flags = SCCP_CONFIG_FLAG_IGNORE -> "skip"
    [] flags = SCCP_CONFIG_FLAG_CHANGED -> "skip"
    [] flags = SCCP_CONFIG_FLAG_DEPRECATED -> "skip"
    [] flags = SCCP_CONFIG_FLAG_REQUIRED /\ value = NULL -> "invalid"
    [] OTHER -> "store"

\* switch (flags) of sccp_config_object_setValue: "skip" returns
\* SCCP_CONFIG_NOUPDATENEEDED at once (the CHANGED and DEPRECATED cases have
\* no break and run into the OBSOLETE return), "invalid" returns
\* SCCP_CONFIG_CHANGE_INVALIDVALUE, "store" goes on to the type switch
FlagSwitch(flags, value) ==
  CASE flags = SCCP_CONFIG_FLAG_IGNORE -> "skip"
    [] flags = SCCP_CONFIG_FLAG_CHANGED -> "skip"
    [] flags = SCCP_CONFIG_FLAG_DEPRECATED -> "skip"
    [] flags = SCCP_CONFIG_FLAG_OBSOLETE -> "skip"
    [] flags = SCCP_CONFIG_FLAG_REQUIRED /\ value = NULL -> "invalid"
    [] OTHER -> "store"

\* the INT and BOOLEAN cases: the number read from value is stored when it
\* differs from the member and the case's test of value (given) lets it
StoreNumber(dst, number, given) ==
  IF given /\ dst # number
  THEN [changed |-> SCCP_CONFIG_CHANGE_CHANGED, changes |-> SCCP_CONFIG_NOUPDATENEEDED,
        dst |-> number]
  ELSE [changed |-> SCCP_CONFIG_CHANGE_NOCHANGE, changes |-> SCCP_CONFIG_NOUPDATENEEDED,
        dst |-> dst]

\* the GENERIC case: changed = converter_f(dst, size, value, segment)
ConverterResult(r) ==
  [changed |-> r.changed, changes |-> SCCP_CONFIG_NOUPDATENEEDED, dst |-> r.dest]

\* switch (type) of sccp_config_object_setValue: [changed, changes, dst]
TypeSwitch(o, dst, value, u) ==
  CASE o.type = SCCP_CONFIG_DATATYPE_CHAR ->
         IF ~sccp_strlen_zero(value) /\ dst # value[1]
         THEN [changed |-> SCCP_CONFIG_CHANGE_NOCHANGE, changes |-> SCCP_CONFIG_CHANGE_CHANGED,
               dst |-> value[1]]
         ELSE [changed |-> SCCP_CONFIG_CHANGE_NOCHANGE, changes |-> SCCP_CONFIG_NOUPDATENEEDED,
               dst |-> dst]
    [] o.type = SCCP_CONFIG_DATATYPE_STRING ->
         IF ~StrCaseEq(dst, value)
         THEN [changed |-> SCCP_CONFIG_CHANGE_NOCHANGE, changes |-> SCCP_CONFIG_CHANGE_CHANGED,
               dst |-> pbx_copy_string(value, FieldSize)]
         ELSE [changed |-> SCCP_CONFIG_CHANGE_NOCHANGE, changes |-> SCCP_CONFIG_NOUPDATENEEDED,
               dst |-> dst]
    [] o.type = SCCP_CONFIG_DATATYPE_STRINGPTR ->
         IF ~sccp_strlen_zero(value)
         THEN IF dst = NULL \/ ~StrCaseEq(dst, value)
              THEN [changed |-> SCCP_CONFIG_CHANGE_CHANGED, changes |-> SCCP_CONFIG_NOUPDATENEEDED,
                    dst |-> value]
              ELSE [changed |-> SCCP_CONFIG_CHANGE_NOCHANGE, changes |-> SCCP_CONFIG_NOUPDATENEEDED,
                    dst |-> dst]
         ELSE IF ~sccp_strlen_zero(dst)
              THEN [changed |-> SCCP_CONFIG_CHANGE_CHANGED, changes |-> SCCP_CONFIG_NOUPDATENEEDED,
                    dst |-> NULL]
              ELSE [changed |-> SCCP_CONFIG_CHANGE_NOCHANGE, changes |-> SCCP_CONFIG_NOUPDATENEEDED,
                    dst |-> dst]
    [] o.type = SCCP_CONFIG_DATATYPE_INT ->
         StoreNumber(dst, atoi(value), ~sccp_strlen_zero(value))
    [] o.type = SCCP_CONFIG_DATATYPE_BOOLEAN ->
         StoreNumber(dst, sccp_true(value), TRUE)
    [] o.type = SCCP_CONFIG_DATATYPE_GENERIC ->
         IF o.converter_f # "NULL"
         THEN ConverterResult(CallConverter(o, dst, value, u))
         ELSE [changed |-> SCCP_CONFIG_CHANGE_NOCHANGE, changes |-> SCCP_CONFIG_NOUPDATENEEDED,
               dst |-> dst]

\* the tail of sccp_config_object_setValue: what it returns
ReturnChanges(o, changed, changes) ==
  IF SCCP_CONFIG_CHANGE_CHANGED = changed THEN o.change ELSE changes

\* sccp_config_object_setValue once sccp_find_config returned entry idx, o
SetValueOfOption(obj, idx, o, value, u) ==
  IF o.offset <= 0 THEN [ret |-> SCCP_CONFIG_NOUPDATENEEDED, obj |-> obj, idx |-> idx]
  ELSE The({
    IF f = "skip" THEN [ret |-> SCCP_CONFIG_NOUPDATENEEDED, obj |-> obj, idx |-> idx]
    ELSE IF f = "invalid"
    THEN [ret |-> SCCP_CONFIG_CHANGE_INVALIDVALUE, obj |-> obj, idx |-> idx]
    ELSE The({
           [ret |-> ReturnChanges(o, t.changed, t.changes),
            obj |-> FieldSet(obj, o.field, t.dst), idx |-> idx]
           : t \in {TypeSwitch(o, FieldGet(obj, o.field), value, u)} })
    : f \in {FlagSwitch(o.flags, value)} })

\* sccp_config_object_setValue(obj, name, value, lineno, segment):
\* [ret, obj, idx] with idx the table entry sccp_find_config selected
sccp_config_object_setValue(obj, name, value, segment, u) ==
  The({
    IF idx = 0 THEN [ret |-> SCCP_CONFIG_NOUPDATENEEDED, obj |-> obj, idx |-> 0]
    ELSE SetValueOfOption(obj, idx, sccp_find_segment(segment)[idx], value, u)
    : idx \in {sccp_find_config(segment, name)} })

\* ------------------------------------------------------ default resolution
\* value = pbx_variable_retrieve(cfg, category, name); if (!value) value =
\* the defaultValue of the entry sccp_find_config finds in segment, if any
SegmentDefault(config, category, segment, name) ==
  The({
    IF value # NULL THEN value
    ELSE The({
           IF sccpDefaultConfigOption # 0
           THEN sccp_find_segment(segment)[sccpDefaultConfigOption].defaultValue
           ELSE NULL
           : sccpDefaultConfigOption \in {sccp_find_config(segment, name)} })
    : value \in {pbx_variable_retrieve(config, category, name)} })

\* case SCCP_CONFIG_FLAG_GET_DEVICE_DEFAULT: entered by that flags value only
DeviceDefaultCase(o, value, config, refid) ==
  IF o.flags = SCCP_CONFIG_FLAG_GET_DEVICE_DEFAULT
  THEN SegmentDefault(config, refid, SCCP_CONFIG_DEVICE_SEGMENT, o.name)
  ELSE value

\* case SCCP_CONFIG_FLAG_GET_GLOBAL_DEFAULT: entered by that flags value or
\* by falling out of the device case; it assigns value whatever it was
GlobalDefaultCase(o, value, config) ==
  IF o.flags \in {SCCP_CONFIG_FLAG_GET_DEVICE_DEFAULT, SCCP_CONFIG_FLAG_GET_GLOBAL_DEFAULT}
  THEN SegmentDefault(config, "general", SCCP_CONFIG_GLOBAL_SEGMENT, o.name)
  ELSE value

\* default: every flags value reaches it
DefaultCase(o, value) == IF value = NULL THEN o.defaultValue ELSE value

\* switch (flags) of sccp_config_set_defaults: the value the entry ends up
\* with.  value is what the local carries into the iteration, refid the id
\* read through the (sccp_device_t *) cast of obj.  The device case has no
\* break and runs into the global case, which assigns value again.
DefaultValueFor(o, value, config, refid) ==
  DefaultCase(o, GlobalDefaultCase(o, DeviceDefaultCase(o, value, config, refid), config))

\* whether the loop of sccp_config_set_defaults looks at entry i at all
NeedsDefault(o, alreadySet) ==
  alreadySet = 0 /\ BitAnd(o.flags, SCCP_CONFIG_FLAG_OBSOLETE) = 0

\* what the loop records of a default handed to sccp_config_object_setValue
DefaultEntry(i, o, val, r, obj) ==
  [i |-> i, name |-> o.name, value |-> val, idx |-> r.idx, ret |-> r.ret, changed |-> r.obj # obj]

\* the body of the if of the for loop, for entry i = o
SetDefaultOfOption(st, segment, i, o, config, u) ==
  The({
    IF val = NULL \/ sccp_strlen_zero(val)
    THEN [st EXCEPT !.value = NULL]
    ELSE The({
           [obj |-> r.obj, value |-> NULL,
            log |-> Append(st.log, DefaultEntry(i, o, val, r, st.obj))]
           : r \in {sccp_config_object_setValue(st.obj, o.name, val, segment, u)} })
    : val \in {DefaultValueFor(o, st.value, config,
                 IF segment = SCCP_CONFIG_DEVICE_SEGMENT THEN st.obj["id"] ELSE u.refid)} })

\* one iteration of the for loop of sccp_config_set_defaults, for entry i;
\* st = [obj, value, log]: the object, the local value as the iteration
\* finds and leaves it, and the entries handed to sccp_config_object_setValue
SetDefaultsStep(st, segment, alreadySetEntries, i, config, u) ==
  The({
    IF ~NeedsDefault(o, alreadySetEntries[i]) THEN st
    ELSE SetDefaultOfOption(st, segment, i, o, config, u)
    : o \in {sccp_find_segment(segment)[i]} })

\* the iterations lo..hi of the for loop, in order
RECURSIVE SetDefaultsLoop(_, _, _, _, _, _, _)
SetDefaultsLoop(st, segment, alreadySetEntries, lo, hi, config, u) ==
  IF lo > hi THEN st
  ELSE IF lo = hi THEN SetDefaultsStep(st, segment, alreadySetEntries, lo, config, u)
  ELSE The({
    SetDefaultsLoop(first, segment, alreadySetEntries, (lo + hi) \div 2 + 1, hi, config, u)
    : first \in {SetDefaultsLoop(st, segment, alreadySetEntries, lo, (lo + hi) \div 2,
                                 config, u)} })

\* sccp_config_set_defaults(obj, segment, alreadySetEntries, arraySize):
\* [obj, value, log]
sccp_config_set_defaults(obj, segment, alreadySetEntries, config, u) ==
  SetDefaultsLoop([obj |-> obj, value |-> <<>>, log |-> <<>>], segment, alreadySetEntries,
                  1, Len(sccp_find_segment(segment)), config, u)

\* ------------------------------------------------------------ apply passes
\* the inner loop that marks every entry named like the supplied pair
MarkAlreadySet(alreadySetEntries, segment, name) ==
  The({
    [i \in DOMAIN alreadySetEntries |-> IF i \in hits THEN 1 ELSE alreadySetEntries[i]]
    : hits \in {NameMatches(segment, name)} })

\* what the loop records of a supplied pair
PairEntry(pair, r, obj) ==
  [name |-> pair.name, value |-> pair.value, idx |-> r.idx, ret |-> r.ret,
   before |-> obj, after |-> r.obj]

\* the loop over the supplied pairs, were it to return at the first pair
\* that selects no table entry
RECURSIVE ApplyPairsUntilUnknown(_, _, _, _, _, _, _)
ApplyPairsUntilUnknown(obj, v, segment, res, alreadySetEntries, u, log) ==
  IF v = <<>> \/ sccp_find_config(segment, v[1].name) = 0
  THEN [obj |-> obj, res |-> res, alreadySetEntries |-> alreadySetEntries, log |-> log]
  ELSE The({
    ApplyPairsUntilUnknown(r.obj, Tail(v), segment, BitOr(res, r.ret),
                           MarkAlreadySet(alreadySetEntries, segment, v[1].name), u,
                           Append(log, PairEntry(v[1], r, obj)))
    : r \in {sccp_config_object_setValue(obj, v[1].name, v[1].value, segment, u)} })

\* for (; v; v = v->next) { res |= setValue(...); mark }: [obj, res,
\* alreadySetEntries, log]; log records every supplied pair's outcome
RECURSIVE ApplyPairs(_, _, _, _, _, _, _)
ApplyPairs(obj, v, segment, res, alreadySetEntries, u, log) ==
  IF v = <<>> THEN [obj |-> obj, res |-> res, alreadySetEntries |-> alreadySetEntries, log |-> log]
  ELSE The({
    ApplyPairs(r.obj, Tail(v), segment, BitOr(res, r.ret),
               MarkAlreadySet(alreadySetEntries, segment, v[1].name), u,
               Append(log, PairEntry(v[1], r, obj)))
    : r \in {sccp_config_object_setValue(obj, v[1].name, v[1].value, segment, u)} })

\* the three apply passes share their body: [res, obj, log, defaults]
ApplyPass(obj, v, segment, config, u) ==
  The({The({
    [res |-> a.res, obj |-> d.obj, log |-> a.log, defaults |-> d.log,
     alreadySetEntries |-> a.alreadySetEntries]
    : d \in {sccp_config_set_defaults(a.obj, segment, a.alreadySetEntries, config, u)} })
    : a \in {ApplyPairs(obj, v, segment, SCCP_CONFIG_NOUPDATENEEDED,
                        [i \in 1..Len(sccp_find_segment(segment)) |-> 0], u, <<>>)} })

sccp_config_applyGlobalConfiguration(g, v, config, u) ==
  ApplyPass(g, v, SCCP_CONFIG_GLOBAL_SEGMENT, config, u)

sccp_config_applyLineConfiguration(l, v, config, u) ==
  The({
    ApplyPass(cleared, v, SCCP_CONFIG_LINE_SEGMENT, config, u)
    : cleared \in {IF l["pendingDelete"] # 0 THEN [l EXCEPT !["variables"] = <<>>] ELSE l} })

sccp_config_applyDeviceConfiguration(d, v, config, u) ==
  The({
    ApplyPass(cleared, v, SCCP_CONFIG_DEVICE_SEGMENT, config, u)
    : cleared \in {IF d["pendingDelete"] # 0
                   THEN [d EXCEPT !["addons"] = <<>>, !["variables"] = <<>>,
                                  !["permithosts"] = <<>>, !["ha"] = NULL]
                   ELSE d} })

\* the tail of the builders, were it to leave pendingDelete as it found it
BuiltStillMarked(r) ==
  [obj |-> [r.obj EXCEPT !["pendingUpdate"] =
                           IF r.res = SCCP_CONFIG_NEEDDEVICERESET /\ r.obj["pendingDelete"] # 0
                           THEN 1 ELSE @],
   pass |-> r, reset |-> r.res = SCCP_CONFIG_NEEDDEVICERESET]

\* the tail both builders share, r being the outcome of the apply pass:
\* if (res == SCCP_CONFIG_NEEDDEVICERESET && x->pendingDelete)
\* x->pendingUpdate = 1; then x->pendingDelete = 0
Built(r) ==
  [obj |-> [r.obj EXCEPT !["pendingUpdate"] =
                           IF r.res = SCCP_CONFIG_NEEDDEVICERESET /\ r.obj["pendingDelete"] # 0
                           THEN 1 ELSE @,
                         !["pendingDelete"] = 0],
   pass |-> r, reset |-> r.res = SCCP_CONFIG_NEEDDEVICERESET]

\* ---------------------------------------------------------------- builders
\* sccp_config_buildLine(l, v, lineName, isRealtime): [obj, pass, reset];
\* reset is the outcome of the res == SCCP_CONFIG_NEEDDEVICERESET test
sccp_config_buildLine(l, v, config, u) ==
  Built(sccp_config_applyLineConfiguration(l, v, config, u))

\* sccp_config_buildDevice(d, v, deviceName, isRealtime): [obj, pass, reset]
sccp_config_buildDevice(d, v, config, u) ==
  Built(sccp_config_applyDeviceConfiguration(d, v, config, u))

\* GLOB(cfg) when sccp.conf could not be loaded
NoConfig == <<[name |-> "<NULL>", vars |-> <<>>]>>

\* the outcome of a pass that did not run
NoPass == [res |-> SCCP_CONFIG_NOUPDATENEEDED, obj |-> <<>>, log |-> <<>>,
           defaults |-> <<>>, alreadySetEntries |-> <<>>]

\* while ((context = strsep(&stringp, "&"))) copy context to used_context
RECURSIVE LastContext(_, _)
LastContext(stringp, used) ==
  IF stringp = NULL THEN used
  ELSE The({
    LastContext(context.rest, pbx_copy_string(context.tok, FieldSize))
    : context \in {strsep(stringp, "&")} })

\* if (hp) memcpy(&GLOB(externip.sin_addr), hp->h_addr, ...)
HostAddress(hp, sin_addr) == IF hp # NULL THEN hp ELSE sin_addr

\* sccp_config_general after sccp_config_applyGlobalConfiguration: the
\* pendingUpdate mark, the default port, externhost and regcontext
GeneralAfterPass(obj, reset) ==
  [obj EXCEPT
     !["pendingUpdate"] = IF reset THEN 1 ELSE @,
     !["bindaddr"].sin_port = IF ntohs(@) = 0 THEN ntohs(DEFAULT_SCCP_PORT) ELSE @,
     !["externip"].sin_addr =
       IF ~sccp_strlen_zero(obj["externhost"])
       THEN HostAddress(pbx_gethostbyname(obj["externhost"]), @)
       ELSE @,
     !["used_context"] = LastContext(pbx_copy_string(obj["regcontext"], FieldSize), @)]

\* sccp_config_general(readingtype): [ok, obj, pass, reset, ran]; ok is
\* the returned boolean, ran tells whether the global pass was reached
sccp_config_general(g, config, u) ==
  The({The({
    IF config = NoConfig \/ v = <<>>
    THEN [ok |-> FALSE, obj |-> g0, pass |-> NoPass, reset |-> FALSE, ran |-> FALSE]
    ELSE The({
           [ok |-> TRUE, obj |-> GeneralAfterPass(r.obj, r.res = SCCP_CONFIG_NEEDDEVICERESET),
            pass |-> r, reset |-> r.res = SCCP_CONFIG_NEEDDEVICERESET, ran |-> TRUE]
           : r \in {sccp_config_applyGlobalConfiguration(g0, v, config, u)} })
    : v \in {ast_variable_browse(config, "general")} })
    : g0 \in {[g EXCEPT !["ha"] = NULL, !["localaddr"] = NULL]} })

\* sccp_globals as allocated: zero-filled, with the members that
\* sccp_config_general maintains outside the option table
GlobalsCreate ==
  The({
    [f \in DOMAIN z \cup {"used_context"} |-> IF f = "used_context" THEN <<>> ELSE z[f]]
    : z \in {ZeroObject(SCCP_CONFIG_GLOBAL_SEGMENT, "general")} })

\* sccp_device_create() followed by the copy of the category name to d->id
sccp_device_create(id) == ZeroObject(SCCP_CONFIG_DEVICE_SEGMENT, id)

\* sccp_line_create() followed by the copy of the category name to l->name
sccp_line_create(id) == ZeroObject(SCCP_CONFIG_LINE_SEGMENT, id)

\* ------------------------------------------------------------ softkey sets
StationMaxSoftKeySetDefinition == 16
SKINNY_LBL_EMPTY == 0

\* softKeyTemplate: the label every configuration word stands for
softKeyTemplate ==
  << [configVar |-> <<"r","e","d","i","a","l">>, softkey |-> 1],
     [configVar |-> <<"n","e","w","c","a","l","l">>, softkey |-> 2],
     [configVar |-> <<"h","o","l","d">>, softkey |-> 3],
     [configVar |-> <<"e","n","d","c","a","l","l">>, softkey |-> 9] >>

\* SoftKeyModes[i].id
SoftKeyModes == [i \in 1..12 |-> i - 1]

\* the if / else if chain over variable->name: the key mode a variable
\* names, -1 for type and for every other name
KeyModeOf(name) ==
  CASE NameCaseEq(name, "onhook") -> 0
    [] NameCaseEq(name, "connected") -> 1
    [] NameCaseEq(name, "onhold") -> 2
    [] NameCaseEq(name, "ringin") -> 3
    [] NameCaseEq(name, "offhook") -> 4
    [] NameCaseEq(name, "conntrans") -> 5
    [] NameCaseEq(name, "digitsfoll") -> 6
    [] NameCaseEq(name, "connconf") -> 7
    [] NameCaseEq(name, "ringout") -> 8
    [] NameCaseEq(name, "offhookfeat") -> 9
    [] NameCaseEq(name, "onhint") -> 10
    [] OTHER -> -1

\* sccp_config_getSoftkeyLbl(key)
sccp_config_getSoftkeyLbl(key) ==
  The({
    IF hits = {} THEN SKINNY_LBL_EMPTY
    ELSE softKeyTemplate[CHOOSE i \in hits : \A j \in hits : i <= j].softkey
    : hits \in {{i \in 1..Len(softKeyTemplate) : StrCaseEq(softKeyTemplate[i].configVar, key)}} })

\* the loop over the labels without its test of i against the array size
RECURSIVE ReadLabelsUncapped(_, _)
ReadLabelsUncapped(splitter, read) ==
  IF splitter = NULL THEN read
  ELSE The({
    ReadLabelsUncapped(label.rest, Append(read, sccp_config_getSoftkeyLbl(label.tok)))
    : label \in {strsep(splitter, ",")} })

\* while ((label = strsep(&splitter, ",")) != NULL && (i + 1) <
\* StationMaxSoftKeySetDefinition) softkeyset[i++] = ...: the labels read
RECURSIVE ReadLabels(_, _)
ReadLabels(splitter, read) ==
  IF splitter = NULL \/ Len(read) + 1 >= StationMaxSoftKeySetDefinition THEN read
  ELSE The({
    ReadLabels(label.rest, Append(read, sccp_config_getSoftkeyLbl(label.tok)))
    : label \in {strsep(splitter, ",")} })

\* sccp_config_readSoftSet(softkeyset, data) on a zero-filled softkeyset:
\* [softkeyset, size]; slot i keeps its zero, the slots after it are emptied
sccp_config_readSoftSet(data) ==
  IF data = NULL
  THEN [softkeyset |-> [j \in 1..StationMaxSoftKeySetDefinition |-> 0], size |-> 0]
  ELSE The({
    [softkeyset |-> [j \in 1..StationMaxSoftKeySetDefinition |->
                       IF j <= Len(read) THEN read[j]
                       ELSE IF j = Len(read) + 1 THEN 0
                       ELSE SKINNY_LBL_EMPTY],
     size |-> Len(read) % 256]
    : read \in {ReadLabels(pbx_copy_string(data, 256), <<>>)} })

\* sccp_calloc(1, sizeof(sccp_softKeySetConfiguration_t)) and the copy of
\* the name
SoftKeySetCreate(name) ==
  [name |-> name, numberOfSoftKeySets |-> 0,
   modes |-> [i \in 1..Len(SoftKeyModes) |-> [id |-> 0, ptr |-> NULL, count |-> 0]]]

\* the body of while (variable) for one variable
SoftKeySetVariable(set, variable) ==
  The({The({
    IF keyMode = -1 THEN set
    ELSE [set EXCEPT
            !.numberOfSoftKeySets = IF @ < keyMode + 1 THEN keyMode + 1 ELSE @,
            !.modes = [i \in DOMAIN @ |->
                         IF SoftKeyModes[i] # keyMode THEN @[i]
                         ELSE IF r.size > 0
                         THEN [id |-> keyMode, ptr |-> r.softkeyset, count |-> r.size]
                         ELSE [@[i] EXCEPT !.ptr = NULL, !.count = 0]]]
    : r \in {sccp_config_readSoftSet(variable.value)} })
    : keyMode \in {KeyModeOf(variable.name)} })

RECURSIVE SoftKeySetVariables(_, _)
SoftKeySetVariables(set, variable) ==
  IF variable = <<>> THEN set
  ELSE SoftKeySetVariables(SoftKeySetVariable(set, variable[1]), Tail(variable))

\* sccp_config_softKeySet without the traversal of softKeySetConfig: every
\* call allocates a set
SoftKeySetWithoutLookup(list, variable, name) ==
  <<SoftKeySetVariables(SoftKeySetCreate(name), variable)>> \o list

\* sccp_config_softKeySet(variable, name) on the list softKeySetConfig: the
\* list it leaves
sccp_config_softKeySet(list, variable, name) ==
  The({
    IF hits = {}
    THEN <<SoftKeySetVariables(SoftKeySetCreate(name), variable)>> \o list
    ELSE The({
           [list EXCEPT ![found] = SoftKeySetVariables(@, variable)]
           : found \in {CHOOSE i \in hits : \A j \in hits : i <= j} })
    : hits \in {{i \in 1..Len(list) : NameCaseEq(list[i].name, name)}} })

\* ------------------------------------------------- protocol descriptors
SCCP_DRIVER_SUPPORTED_PROTOCOL_LOW == 3
SCCP_DRIVER_SUPPORTED_PROTOCOL_HIGH == 20
SCCP_PROTOCOL == 0
SPCP_PROTOCOL == 1

\* the descriptors of the two protocol families, lowest version first
sccpProtocolDefinition ==
  << [name |-> "SCCP", version |-> 3], [name |-> "SCCP", version |-> 11],
     [name |-> "SCCP", version |-> 15], [name |-> "SCCP", version |-> 17],
     [name |-> "SCCP", version |-> 19] >>
spcpProtocolDefinition ==
  << [name |-> "SPCP", version |-> 3], [name |-> "SPCP", version |-> 8] >>

\* the table of a protocol family
ProtocolDefinition(type) ==
  IF type = SCCP_PROTOCOL THEN sccpProtocolDefinition ELSE spcpProtocolDefinition

\* sccp_protocol_getDeviceProtocol answering with the descriptor of the
\* highest version of the family, whatever the device negotiated
HighestDeviceProtocol(version, type) ==
  <<ProtocolDefinition(type)[Len(ProtocolDefinition(type))]>>

\* sccp_protocol_getDeviceProtocol(device, type) for a device that
\* negotiated version: <<>> for no descriptor, or the descriptor of the
\* highest version of the family that is not above version
sccp_protocol_getDeviceProtocol(version, type) ==
  The({
    IF version < SCCP_DRIVER_SUPPORTED_PROTOCOL_LOW \/ hits = {} THEN <<>>
    ELSE <<ProtocolDefinition(type)[CHOOSE i \in hits : \A j \in hits : j <= i]>>
    : hits \in {{i \in 1..Len(ProtocolDefinition(type)) :
                   ProtocolDefinition(type)[i].version <= version}} })

\* ------------------------------------------------------------ input pools
\* the device and the line the reconciliation works on
DeviceId == "SEP1"
LineId == "100"

Pair(n, val) == [name |-> n, value |-> val]

\* (name, value) pairs a [general] section is made of
GlobalPairPool ==
  << Pair("keepalive", <<"4","5">>),
     Pair("transfer", <<"o","f","f">>),
     Pair("nat", <<"o","n">>) >>

\* (name, value) pairs a device section is made of
DevicePairPool ==
  << Pair("description", <<"a","b","c">>),
     Pair("keepalive", <<"3","0">>),
     Pair("dnd", <<"o","n">>) >>

\* (name, value) pairs a line section is made of
LinePairPool ==
  << Pair("pin", <<"1","2","3","4">>),
     Pair("test1", <<"x">>),
     Pair("label", <<"L","1">>) >>

\* the variable lists of at most MaxPairs pairs, in pool order
Sections(pool) ==
  {[i \in 1..Len(s) |-> pool[s[i]]] :
     s \in {t \in UNION {[1..k -> 1..Len(pool)] : k \in 0..MaxPairs} :
              \A i \in 1..(Len(t) - 1) : t[i] < t[i + 1]}}

\* what the reads the C standard leaves undefined may yield: same - the
\* comparison against the freshly allocated host entry; junk - the
\* uninitialised cos; refid - the id read from a line through the device cast
Oracle(refids) == [same : {FALSE}, junk : {0}, refid : refids]
RefIds == {DeviceId, "none"}

\* sccp.conf with the three sections the passes read
ConfigOf(general, device, line) ==
  << [name |-> "general", vars |-> general],
     [name |-> DeviceId, vars |-> device],
     [name |-> LineId, vars |-> line] >>

\* the config after the variable list of one category was rewritten
SetSection(config, category, v) ==
  [c \in DOMAIN config |->
     IF config[c].name = category THEN [config[c] EXCEPT !.vars = v] ELSE config[c]]

\* ------------------------------------------------------------------- state
VARIABLES
  cfg,       \* GLOB(cfg): the loaded sccp.conf
  globals,   \* sccp_globals
  devices,   \* GLOB(devices): device id -> device
  lines,     \* GLOB(lines): line name -> line
  pass,      \* the last apply pass: what it was given and what it did
  call,      \* the last direct sccp_config_object_setValue call
  passes,    \* number of passes, calls or reloads run so far
  pc,        \* where the load of sccp.conf stands
  rd,        \* sccp_config_readDevicesLines: its argument, its cursor, its record
  softKeySetConfig,  \* the list of softkey sets
  locks,     \* list -> the thread that holds the list's lock
  thr        \* thread -> where it stands in its function, and its locals

vars == <<cfg, globals, devices, lines, pass, call, passes, pc, rd, softKeySetConfig, locks, thr>>

\* no list lock is held; the reloading thread and a thread that reads the
\* lists are outside their functions
NoLocks == [l \in {"buttonconfig", "addons", "permithosts", "mailboxes"} |-> "free"]
Outside == [pc |-> "out"]
NoThreads == [t \in {"reload", "reader"} |-> Outside]

\* rd before any load: readingtype, the category cursor cat, the ids the
\* pre-reload hooks marked, the devices whose section changed an option
\* marked SCCP_CONFIG_NEEDDEVICERESET, the devices and lines built,
\* whether the config is the one the load before read, the hooks called
\* and the sections processed so far, in order, and GLOB(pendingUpdate)
\* and GLOB(devices) as they were when the category loop ended
NoLoad == [readingtype |-> SCCP_CONFIG_READINITIAL, cat |-> 0, marked |-> {},
           changedReset |-> {}, built |-> {}, unchanged |-> FALSE,
           steps |-> <<>>, globalUpdate |-> 0, beforeUpdate |-> <<>>]

\* the record kept of a sccp_config_object_setValue call; repeated tells
\* that the call before it gave the same pair to the same object
CallRecord(segment, pair, before, r, repeated) ==
  [segment |-> segment, name |-> pair.name, value |-> pair.value, idx |-> r.idx,
   ret |-> r.ret, before |-> before, after |-> r.obj, repeated |-> repeated]

NoCall == CallRecord("none", Pair("", NULL), <<>>,
                     [idx |-> 0, ret |-> SCCP_CONFIG_NOUPDATENEEDED, obj |-> <<>>], FALSE)

\* the record kept of an apply pass
PassRecord(segment, v, before, r, reset) ==
  [segment |-> segment, v |-> v, before |-> before, after |-> r.obj, res |-> r.res,
   reset |-> reset, log |-> r.log, defaults |-> r.defaults]

InitApply ==
  /\ cfg = ConfigOf(<<>>, <<>>, <<>>)
  /\ globals = GlobalsCreate
  /\ devices = [id \in {DeviceId} |-> sccp_device_create(id)]
  /\ lines = [id \in {LineId} |-> sccp_line_create(id)]
  /\ pass = PassRecord("none", <<>>, <<>>, NoPass, FALSE)
  /\ call = NoCall
  /\ passes = 0
  /\ pc = "idle"
  /\ rd = NoLoad
  /\ softKeySetConfig = <<>>
  /\ locks = NoLocks
  /\ thr = NoThreads

\* the [general] section reads v and sccp_config_general runs
ConfigGeneral(v, u) ==
  /\ passes < MaxPasses
  /\ cfg' = SetSection(cfg, "general", v)
  /\ \E r \in {sccp_config_general(globals, SetSection(cfg, "general", v), u)} :
       /\ r.ran
       /\ globals' = r.obj
       /\ pass' = PassRecord(SCCP_CONFIG_GLOBAL_SEGMENT, v, globals, r.pass, r.reset)
  /\ passes' = passes + 1
  /\ UNCHANGED <<devices, lines, call, pc, rd, softKeySetConfig, locks, thr>>

\* the device's section reads v and sccp_config_buildDevice runs
BuildDevice(v, u) ==
  /\ passes < MaxPasses
  /\ cfg' = SetSection(cfg, DeviceId, v)
  /\ \E r \in {sccp_config_buildDevice(devices[DeviceId], v, SetSection(cfg, DeviceId, v), u)} :
       /\ devices' = [devices EXCEPT ![DeviceId] = r.obj]
       /\ pass' = PassRecord(SCCP_CONFIG_DEVICE_SEGMENT, v, devices[DeviceId], r.pass, r.reset)
  /\ passes' = passes + 1
  /\ UNCHANGED <<globals, lines, call, pc, rd, softKeySetConfig, locks, thr>>

\* the line's section reads v and sccp_config_buildLine runs
BuildLine(v, u) ==
  /\ passes < MaxPasses
  /\ cfg' = SetSection(cfg, LineId, v)
  /\ \E r \in {sccp_config_buildLine(lines[LineId], v, SetSection(cfg, LineId, v), u)} :
       /\ lines' = [lines EXCEPT ![LineId] = r.obj]
       /\ pass' = PassRecord(SCCP_CONFIG_LINE_SEGMENT, v, lines[LineId], r.pass, r.reset)
  /\ passes' = passes + 1
  /\ UNCHANGED <<globals, devices, call, pc, rd, softKeySetConfig, locks, thr>>

NextApply ==
  \/ \E v \in Sections(GlobalPairPool), u \in Oracle({DeviceId}) : ConfigGeneral(v, u)
  \/ \E v \in Sections(DevicePairPool), u \in Oracle({DeviceId}) : BuildDevice(v, u)
  \/ \E v \in Sections(LinePairPool), u \in Oracle(RefIds) : BuildLine(v, u)

SpecApply == InitApply /\ [][NextApply]_vars

\* ------------------------------------------- single calls of the setter
\* (name, value) pairs handed to sccp_config_object_setValue one at a time
GlobalCallPool ==
  << Pair("keepalive", <<"4","5">>),
     Pair("digittimeoutchar", <<"*">>),
     Pair("servername", <<"s","e","r","v","e","r","1">>),
     Pair("disallow", <<"a","l","l">>),
     Pair("allow", <<"a","l","a","w">>) >>

DeviceCallPool ==
  << Pair("description", <<"a","b","c">>),
     Pair("description", <<"a","b","c","d","e","f","g","h">>),
     Pair("keepalive", <<"3","0">>),
     Pair("addon", <<"7","9","1","4">>),
     Pair("permithost", <<"h","1">>),
     Pair("setvar", <<"a","=","b">>),
     Pair("deny", <<"0",".","0",".","0",".","0","/","0">>),
     Pair("dnd", <<"o","n">>),
     Pair("nat", <<"o","n">>),
     Pair("earlyrtp", <<"p","r","o","g","r","e","s","s">>),
     Pair("earlyrtp", <<"x">>),
     Pair("type", <<"7","9","6","0">>) >>

LineCallPool ==
  << Pair("pin", <<"1","2","3","4">>),
     Pair("pin", <<>>),
     Pair("label", <<"L","1">>),
     Pair("regexten", <<"r">>),
     Pair("test1", <<"x">>),
     Pair("test2", <<"x">>),
     Pair("mailbox", <<"1","@","d">>) >>

\* what a direct call may read: the host-entry comparison either way
CallOracle == [same : BOOLEAN, junk : {0}, refid : {DeviceId}]

\* the pair the call record holds
LastPair(segment) == IF call.segment = segment THEN Pair(call.name, call.value) ELSE Pair("", NULL)

SetGlobalValue(pair, u) ==
  /\ passes < MaxCalls
  /\ \E r \in {sccp_config_object_setValue(globals, pair.name, pair.value,
                                             SCCP_CONFIG_GLOBAL_SEGMENT, u)} :
       /\ globals' = r.obj
       /\ call' = CallRecord(SCCP_CONFIG_GLOBAL_SEGMENT, pair, globals, r,
                             LastPair(SCCP_CONFIG_GLOBAL_SEGMENT) = pair)
  /\ passes' = passes + 1
  /\ UNCHANGED <<cfg, devices, lines, pass, pc, rd, softKeySetConfig, locks, thr>>

SetDeviceValue(pair, u) ==
  /\ passes < MaxCalls
  /\ \E r \in {sccp_config_object_setValue(devices[DeviceId], pair.name, pair.value,
                                             SCCP_CONFIG_DEVICE_SEGMENT, u)} :
       /\ devices' = [devices EXCEPT ![DeviceId] = r.obj]
       /\ call' = CallRecord(SCCP_CONFIG_DEVICE_SEGMENT, pair, devices[DeviceId], r,
                             LastPair(SCCP_CONFIG_DEVICE_SEGMENT) = pair)
  /\ passes' = passes + 1
  /\ UNCHANGED <<cfg, globals, lines, pass, pc, rd, softKeySetConfig, locks, thr>>

SetLineValue(pair, u) ==
  /\ passes < MaxCalls
  /\ \E r \in {sccp_config_object_setValue(lines[LineId], pair.name, pair.value,
                                             SCCP_CONFIG_LINE_SEGMENT, u)} :
       /\ lines' = [lines EXCEPT ![LineId] = r.obj]
       /\ call' = CallRecord(SCCP_CONFIG_LINE_SEGMENT, pair, lines[LineId], r,
                             LastPair(SCCP_CONFIG_LINE_SEGMENT) = pair)
  /\ passes' = passes + 1
  /\ UNCHANGED <<cfg, globals, devices, pass, pc, rd, softKeySetConfig, locks, thr>>

PoolSet(pool) == {pool[i] : i \in 1..Len(pool)}

NextSetValue ==
  \/ \E pair \in PoolSet(GlobalCallPool), u \in CallOracle : SetGlobalValue(pair, u)
  \/ \E pair \in PoolSet(DeviceCallPool), u \in CallOracle : SetDeviceValue(pair, u)
  \/ \E pair \in PoolSet(LineCallPool), u \in CallOracle : SetLineValue(pair, u)

SpecSetValue == InitApply /\ [][NextSetValue]_vars

\* ------------------------------------------------- properties of a pass
PassRan == pass.segment # "none"
PassTable == sccp_find_segment(pass.segment)
HasFlag(o, flag) == BitAnd(o.flags, flag) # 0

\* the supplied pairs of the last pass that selected a table entry which
\* addresses a member of the object
PairsApplied == {k \in 1..Len(pass.log) : pass.log[k].idx # 0 /\ PassTable[pass.log[k].idx].offset > 0}
PairOption(k) == PassTable[pass.log[k].idx]

\* the table entries of the last pass's segment that address a member and
\* that no supplied pair names
NotSupplied ==
  {i \in 1..Len(PassTable) :
     /\ PassTable[i].offset > 0
     /\ \A k \in 1..Len(pass.v) : ~NameCaseEq(pass.v[k].name, PassTable[i].name)}

\* the value default resolution handed to sccp_config_object_setValue for
\* entry i in the last pass, or NULL when it handed none
DefaultApplied(i) ==
  LET hits == {k \in 1..Len(pass.defaults) : pass.defaults[k].i = i}
  IN  IF hits = {} THEN NULL ELSE pass.defaults[CHOOSE k \in hits : TRUE].value

\* C1: in every apply pass in which a supplied pair changed the stored value
\* of an option marked SCCP_CONFIG_NEEDDEVICERESET, the caller's test
\* res == SCCP_CONFIG_NEEDDEVICERESET succeeds
C1_ResetChangeClassified ==
  (PassRan /\ \E k \in PairsApplied :
                 /\ PairOption(k).change = SCCP_CONFIG_NEEDDEVICERESET
                 /\ pass.log[k].after # pass.log[k].before)
  => pass.reset

\* C6: in every apply pass a supplied pair that selects an obsolete option
\* leaves the object as it was and returns SCCP_CONFIG_NOUPDATENEEDED, default
\* resolution hands no obsolete option to sccp_config_object_setValue, and
\* the member of an obsolete option that no other entry addresses is the
\* same after the pass as before it
C6_ObsoleteNeverApplied ==
  PassRan =>
    /\ \A k \in PairsApplied :
         HasFlag(PairOption(k), SCCP_CONFIG_FLAG_OBSOLETE) =>
           /\ pass.log[k].after = pass.log[k].before
           /\ pass.log[k].ret = SCCP_CONFIG_NOUPDATENEEDED
    /\ \A k \in 1..Len(pass.defaults) :
         /\ ~HasFlag(PassTable[pass.defaults[k].i], SCCP_CONFIG_FLAG_OBSOLETE)
         /\ ~HasFlag(PassTable[pass.defaults[k].idx], SCCP_CONFIG_FLAG_OBSOLETE)
    /\ \A i \in 1..Len(PassTable) :
         (/\ HasFlag(PassTable[i], SCCP_CONFIG_FLAG_OBSOLETE)
          /\ PassTable[i].offset > 0
          /\ \A j \in 1..Len(PassTable) : j # i => PassTable[j].field # PassTable[i].field)
         => FieldGet(pass.after, PassTable[i].field) = FieldGet(pass.before, PassTable[i].field)

\* a pass was given a pair naming an obsolete option, and ran default
\* resolution over a table holding an obsolete option with a default literal
C6_Witness ==
  /\ PassRan
  /\ \E k \in PairsApplied : HasFlag(PairOption(k), SCCP_CONFIG_FLAG_OBSOLETE)
                             /\ ~sccp_strlen_zero(pass.log[k].value)
  /\ Len(pass.defaults) > 0

\* C8: after a pass over a section that lacks a required option, an
\* invalid-value outcome is on record for that option
C8_MissingRequiredRecorded ==
  PassRan =>
    \A i \in NotSupplied :
      HasFlag(PassTable[i], SCCP_CONFIG_FLAG_REQUIRED) =>
        \E k \in 1..Len(pass.defaults) :
          /\ pass.defaults[k].i = i
          /\ pass.defaults[k].ret = SCCP_CONFIG_CHANGE_INVALIDVALUE

\* C9: after a device or line pass, every option flagged
\* SCCP_CONFIG_FLAG_GET_GLOBAL_DEFAULT that the section did not supply and
\* that [general] holds a value for was given that [general] value
C9_GlobalValueInherited ==
  (PassRan /\ pass.segment # SCCP_CONFIG_GLOBAL_SEGMENT) =>
    \A i \in NotSupplied :
      LET general == pbx_variable_retrieve(cfg, "general", PassTable[i].name)
      IN  (HasFlag(PassTable[i], SCCP_CONFIG_FLAG_GET_GLOBAL_DEFAULT)
           /\ general # NULL /\ ~sccp_strlen_zero(general))
          => DefaultApplied(i) = general

\* the device-level value of an option: the value under the device's
\* category, or else the device table's default literal
DeviceLevelValue(name) ==
  LET devCfg == pbx_variable_retrieve(cfg, DeviceId, name)
      devOpt == sccp_find_config(SCCP_CONFIG_DEVICE_SEGMENT, name)
  IN  IF devCfg # NULL THEN devCfg
      ELSE IF devOpt # 0 THEN sccpDeviceConfigOptions[devOpt].defaultValue
      ELSE NULL

\* C10: after a pass, every option flagged SCCP_CONFIG_FLAG_GET_DEVICE_DEFAULT
\* that the section did not supply and that has a device-level value was
\* given that device-level value
C10_DeviceValueFirst ==
  PassRan =>
    \A i \in NotSupplied :
      LET device == DeviceLevelValue(PassTable[i].name)
      IN  (HasFlag(PassTable[i], SCCP_CONFIG_FLAG_GET_DEVICE_DEFAULT)
           /\ device # NULL /\ ~sccp_strlen_zero(device))
          => DefaultApplied(i) = device

\* C11: after a global pass, every option that is not obsolete, that the
\* section did not supply and whose default literal is not empty had that
\* literal handed to sccp_config_object_setValue, whatever its table position
C11_DefaultsConverted ==
  (PassRan /\ pass.segment = SCCP_CONFIG_GLOBAL_SEGMENT) =>
    \A i \in NotSupplied :
      (/\ ~HasFlag(PassTable[i], SCCP_CONFIG_FLAG_OBSOLETE)
       /\ ~sccp_strlen_zero(PassTable[i].defaultValue))
      => DefaultApplied(i) = PassTable[i].defaultValue

\* the k-th pair of the last pass did not get through: its name selects no
\* table entry, or its option is flagged ignore or obsolete, or its value
\* is missing or was rejected
PairRefused(k) ==
  \/ pass.log[k].idx = 0
  \/ HasFlag(PairOption(k), SCCP_CONFIG_FLAG_IGNORE)
  \/ HasFlag(PairOption(k), SCCP_CONFIG_FLAG_OBSOLETE)
  \/ pass.log[k].ret = SCCP_CONFIG_CHANGE_INVALIDVALUE

\* C16: every pair of the section is handed to sccp_config_object_setValue
\* once, in the order of the section, each call working on the object the
\* call before it left; a pair whose name selects no table entry leaves the
\* object as it was; and default resolution runs after the pairs, whatever
\* became of them
C16_EveryPairHandedOnce ==
  PassRan =>
    /\ Len(pass.log) = Len(pass.v)
    /\ \A k \in 1..Len(pass.v) :
         /\ pass.log[k].name = pass.v[k].name
         /\ pass.log[k].value = pass.v[k].value
         /\ pass.log[k].idx = sccp_find_config(pass.segment, pass.v[k].name)
         /\ k > 1 => pass.log[k].before = pass.log[k - 1].after
         /\ pass.log[k].idx = 0 => pass.log[k].after = pass.log[k].before
    /\ Len(pass.defaults) > 0

\* a pass met a pair that did not get through and applied a pair after it
C16_Witness ==
  /\ PassRan
  /\ \E k \in 1..(Len(pass.v) - 1) :
       /\ PairRefused(k)
       /\ pass.log[k + 1].after # pass.log[k + 1].before
  /\ \E k \in 1..Len(pass.v) : pass.log[k].idx = 0

\* -------------------------------------------- loads of the [general] section
\* (name, value) pairs of a [general] section that names the bind address
BindPairPool ==
  << Pair("bindaddr", <<"n","o","h","o","s","t">>),
     Pair("bindaddr", <<"1","0",".","0",".","0",".","1">>),
     Pair("port", <<"2","0","0","0">>),
     Pair("port", <<"2","0","0","1">>),
     Pair("externhost", <<"l","o","c","a","l","h","o","s","t">>),
     Pair("keepalive", <<"4","5">>) >>

NextGeneral ==
  \E v \in Sections(BindPairPool), u \in Oracle({DeviceId}) : ConfigGeneral(v, u)

SpecGeneral == InitApply /\ [][NextGeneral]_vars

\* what sccp_config_general returned to its caller in the last pass
GeneralReturned ==
  sccp_config_general(pass.before, cfg, [same |-> FALSE, junk |-> 0, refid |-> DeviceId]).ok

\* C17: a [general] section whose bindaddr cannot be resolved makes
\* sccp_config_general return FALSE
C17_BindaddrFailureEscalates ==
  (/\ PassRan
   /\ pass.segment = SCCP_CONFIG_GLOBAL_SEGMENT
   /\ \E k \in 1..Len(pass.v) :
        /\ NameCaseEq(pass.v[k].name, "bindaddr")
        /\ pbx_gethostbyname(pass.v[k].value) = NULL)
  => ~GeneralReturned

\* the port, in network byte order, that pair k of the last pass names
PortOfPair(k) == htons(sscanf_i(pass.v[k].value).n % 65536)

\* the last pass was one of the [general] section with port as its only pair
PortPass ==
  /\ PassRan
  /\ pass.segment = SCCP_CONFIG_GLOBAL_SEGMENT
  /\ Len(pass.v) = 1
  /\ NameCaseEq(pass.v[1].name, "port")

\* C26: a pass of the [general] section that supplies a port other than the
\* one the bind address holds stores the new port and is classified as
\* needs-device-reset; a pass that supplies the port the bind address holds
\* gets no reset from the port pair
C26_PortChangeResets ==
  PortPass =>
    IF pass.before["bindaddr"].sin_port # PortOfPair(1)
    THEN /\ globals["bindaddr"].sin_port = PortOfPair(1)
         /\ pass.reset
    ELSE sccp_config_object_setValue(pass.before, "port", pass.v[1].value,
           SCCP_CONFIG_GLOBAL_SEGMENT, [same |-> FALSE, junk |-> 0, refid |-> DeviceId]).ret
           = SCCP_CONFIG_NOUPDATENEEDED

\* ------------------------------------------------- properties of a call
CallRan == call.segment # "none"
CallTable == sccp_find_segment(call.segment)
\* the call selected a table entry that addresses a member of the object
CallApplied == CallRan /\ call.idx # 0 /\ CallTable[call.idx].offset > 0
CallOption == CallTable[call.idx]

\* C4: a call that gives the object the pair the call before it gave returns
\* SCCP_CONFIG_NOUPDATENEEDED and leaves the object as it found it
C4_SecondApplicationNoChange ==
  (CallRan /\ call.repeated) =>
    /\ call.ret = SCCP_CONFIG_NOUPDATENEEDED
    /\ call.after = call.before

\* what the type switch does with the call's value on the member the call
\* found (the options concerned have no converter that reads the oracle)
CallTypeSwitch ==
  TypeSwitch(CallOption, FieldGet(call.before, CallOption.field), call.value,
             [same |-> FALSE, junk |-> 0, refid |-> DeviceId])

\* C5: a call naming an option flagged deprecated or changed leaves the
\* member as the type switch computes it from the value and returns what
\* the type switch's change detection yields
C5_DeprecatedStillApplied ==
  (CallApplied /\ (\/ HasFlag(CallOption, SCCP_CONFIG_FLAG_DEPRECATED)
                   \/ HasFlag(CallOption, SCCP_CONFIG_FLAG_CHANGED))) =>
    /\ call.after = FieldSet(call.before, CallOption.field, CallTypeSwitch.dst)
    /\ call.ret = ReturnChanges(CallOption, CallTypeSwitch.changed, CallTypeSwitch.changes)

\* the generic converters that can reject a value
RejectingConverters ==
  {"sccp_config_parse_earlyrtp", "sccp_config_parse_dtmfmode", "sccp_config_parse_mwilamp",
   "sccp_config_parse_tos", "sccp_config_parse_cos", "sccp_config_parse_smallint",
   "sccp_config_parse_amaflags", "sccp_config_parse_callanswerorder",
   "sccp_config_parse_blindtransferindication"}

\* what the call's converter makes of the call's value on a member that
\* holds dst
CallConverted(dst) ==
  CallConverter(CallOption, dst, call.value, [same |-> FALSE, junk |-> 0, refid |-> DeviceId])

\* the call went to one of these converters with a value the converter
\* answers with SCCP_CONFIG_CHANGE_INVALIDVALUE for some content of the member
CallRejected ==
  /\ CallApplied
  /\ CallOption.type = SCCP_CONFIG_DATATYPE_GENERIC
  /\ CallOption.converter_f \in RejectingConverters
  /\ \E dst \in 0..255 : CallConverted(dst).changed = SCCP_CONFIG_CHANGE_INVALIDVALUE

\* C15: a call that hands an invalid value to a generic converter that can
\* reject values leaves the member as it was, and the converter's outcome
\* is SCCP_CONFIG_CHANGE_INVALIDVALUE
C15_InvalidValueKeepsField ==
  CallRejected =>
    /\ FieldGet(call.after, CallOption.field) = FieldGet(call.before, CallOption.field)
    /\ CallConverted(FieldGet(call.before, CallOption.field)).changed
         = SCCP_CONFIG_CHANGE_INVALIDVALUE

\* C7: a call naming a required option with an empty value returns
\* SCCP_CONFIG_CHANGE_INVALIDVALUE and leaves the object as it found it
C7_EmptyRequiredRejected ==
  (CallApplied /\ HasFlag(CallOption, SCCP_CONFIG_FLAG_REQUIRED)
               /\ sccp_strlen_zero(call.value)) =>
    /\ call.ret = SCCP_CONFIG_CHANGE_INVALIDVALUE
    /\ call.after = call.before

\* ------------------------------------------------------- loads of sccp.conf
GeneralA == << Pair("keepalive", <<"6","0">>) >>
GeneralB == << Pair("keepalive", <<"4","5">>) >>

DeviceHead == << Pair("type", <<"d","e","v","i","c","e">>), Pair("devicetype", <<"7","9","6","0">>) >>
DeviceSectionA ==
  DeviceHead \o << Pair("addon", <<"7","9","1","4">>), Pair("permithost", <<"h","1">>),
                   Pair("setvar", <<"a","=","b">>) >>
DeviceSectionB == DeviceHead \o << Pair("keepalive", <<"3","0">>), Pair("addon", <<"7","9","1","4">>) >>

LineHead == << Pair("type", <<"l","i","n","e">>), Pair("cid_name", <<"n">>), Pair("cid_num", <<"1","0","0">>) >>
LineSectionA == LineHead \o << Pair("label", <<"L","1">>), Pair("pin", <<"1","2","3","4">>) >>
LineSectionB == LineHead \o << Pair("label", <<"L","2">>), Pair("pin", <<"1","2","3","4">>) >>

\* sections below their minimum: a device without devicetype, a line
\* without cid_name and cid_num
DeviceSectionC == << Pair("type", <<"d","e","v","i","c","e">>), Pair("description", <<"a","b","c">>) >>
LineSectionC == << Pair("type", <<"l","i","n","e">>), Pair("label", <<"L","1">>) >>

\* the files sccp_config_getConfig may find in place of sccp.conf
ConfigPool ==
  { ConfigOf(GeneralA, DeviceSectionA, LineSectionA),
    ConfigOf(GeneralA, DeviceSectionB, LineSectionB),
    ConfigOf(GeneralB, DeviceSectionA, LineSectionA),
    ConfigOf(GeneralA, DeviceSectionC, LineSectionC),
    << [name |-> "general", vars |-> GeneralA], [name |-> LineId, vars |-> LineSectionA] >> }

\* sccp_device_pre_reload / sccp_line_pre_reload: every registered object is
\* marked pendingDelete
pre_reload(registry) == [id \in DOMAIN registry |-> [registry[id] EXCEPT !["pendingDelete"] = 1]]

\* sccp_line_post_reload / sccp_device_post_reload: an object still marked
\* pendingDelete leaves the registry, one marked pendingUpdate is reset
post_reload(registry) ==
  [id \in {i \in DOMAIN registry : registry[i]["pendingDelete"] = 0} |->
     [registry[id] EXCEPT !["pendingUpdate"] = 0]]

\* sccp_config_restoreDeviceFeatureStatus(device) with no entry for the
\* device in the PBX database
sccp_config_restoreDeviceFeatureStatus(d) ==
  [d EXCEPT !["dndFeature"].status = SCCP_DNDMODE_OFF,
            !["monitorFeature"].status = 0,
            !["privacyFeature"].status = 0]

\* the supplied pairs of a pass that changed the object through an option
\* marked SCCP_CONFIG_NEEDDEVICERESET
ResetChanges(r, segment) ==
  {k \in 1..Len(r.log) :
     /\ r.log[k].idx # 0
     /\ sccp_find_segment(segment)[r.log[k].idx].offset > 0
     /\ sccp_find_segment(segment)[r.log[k].idx].change = SCCP_CONFIG_NEEDDEVICERESET
     /\ r.log[k].after # r.log[k].before}

InitReload ==
  /\ cfg \in ConfigPool
  /\ globals = GlobalsCreate
  /\ devices = <<>>
  /\ lines = <<>>
  /\ pass = PassRecord("none", <<>>, <<>>, NoPass, FALSE)
  /\ call = NoCall
  /\ passes = 0
  /\ pc = "general"
  /\ rd = NoLoad
  /\ softKeySetConfig = <<>>
  /\ locks = NoLocks
  /\ thr = NoThreads

\* the hooks sccp_config_readDevicesLines calls in front of its category
\* loop and at its end when readingtype is SCCP_CONFIG_READRELOAD
PreReloadHooks == <<"sccp_device_pre_reload", "sccp_line_pre_reload", "sccp_softkey_pre_reload">>
PostReloadHooksDeviceFirst ==
  <<"sccp_device_post_reload", "sccp_line_post_reload", "sccp_softkey_post_reload">>
PostReloadHooks == <<"sccp_line_post_reload", "sccp_device_post_reload", "sccp_softkey_post_reload">>

\* the propagation reaching every device, marked or not
UpdateEveryDevice(registry) ==
  [id \in DOMAIN registry |-> [registry[id] EXCEPT !["pendingUpdate"] = 1]]

\* if (GLOB(pendingUpdate)): the traversal of GLOB(devices)
UpdateDevices(registry) ==
  [id \in DOMAIN registry |->
     IF registry[id]["pendingDelete"] = 0 /\ registry[id]["pendingUpdate"] = 0
     THEN [registry[id] EXCEPT !["pendingUpdate"] = 1]
     ELSE registry[id]]

\* "sccp reload": sccp_config_getConfig reads the file anew
Reload(config) ==
  /\ pc = "idle"
  /\ passes < MaxPasses
  /\ cfg' = config
  /\ pc' = "general"
  /\ rd' = [NoLoad EXCEPT !.readingtype = SCCP_CONFIG_READRELOAD, !.unchanged = (config = cfg)]
  /\ passes' = passes + 1
  /\ UNCHANGED <<globals, devices, lines, pass, call, softKeySetConfig, locks, thr>>

\* sccp_config_general(readingtype); the load stops when it returns FALSE
General(u) ==
  /\ pc = "general"
  /\ \E r \in {sccp_config_general(globals, cfg, u)} :
       /\ globals' = r.obj
       /\ pass' = IF r.ran
                  THEN PassRecord(SCCP_CONFIG_GLOBAL_SEGMENT, ast_variable_browse(cfg, "general"),
                                  globals, r.pass, r.reset)
                  ELSE pass
       /\ pc' = IF r.ok THEN "pre" ELSE "idle"
  /\ UNCHANGED <<cfg, devices, lines, call, passes, rd, softKeySetConfig, locks, thr>>

\* sccp_config_readDevicesLines up to its category loop
PreReload ==
  /\ pc = "pre"
  /\ IF rd.readingtype = SCCP_CONFIG_READRELOAD
     THEN /\ devices' = pre_reload(devices)
          /\ lines' = pre_reload(lines)
          /\ rd' = [rd EXCEPT !.marked = DOMAIN devices \cup DOMAIN lines, !.cat = 1,
                              !.steps = @ \o PreReloadHooks]
     ELSE /\ UNCHANGED <<devices, lines>>
          /\ rd' = [rd EXCEPT !.cat = 1]
  /\ pc' = IF cfg = NoConfig THEN "idle" ELSE "sections"
  /\ UNCHANGED <<cfg, globals, pass, call, passes, softKeySetConfig, locks, thr>>

\* the category the loop of sccp_config_readDevicesLines stands at
Cat == cfg[rd.cat].name
InLoop == pc = "sections" /\ rd.cat <= Len(cfg)
Utype == pbx_variable_retrieve(cfg, Cat, "type")

\* the section is one the loop builds a device from
IsDeviceSection ==
  /\ ~NameCaseEq(Cat, "general")
  /\ Utype # NULL /\ StrCaseEq(Utype, <<"d","e","v","i","c","e">>)
  /\ ~sccp_strlen_zero(pbx_variable_retrieve(cfg, Cat, "devicetype"))

\* the section is one the loop builds a line from
IsLineSection ==
  /\ ~NameCaseEq(Cat, "general")
  /\ Utype # NULL /\ ~StrCaseEq(Utype, <<"d","e","v","i","c","e">>)
  /\ StrCaseEq(Utype, <<"l","i","n","e">>)
  /\ ~(/\ ~(~sccp_strlen_zero(pbx_variable_retrieve(cfg, Cat, "label")))
       /\ ~sccp_strlen_zero(pbx_variable_retrieve(cfg, Cat, "cid_name"))
       /\ ~sccp_strlen_zero(pbx_variable_retrieve(cfg, Cat, "cid_num")))

\* the section is one the loop hands to sccp_config_softKeySet
IsSoftKeySetSection ==
  /\ ~NameCaseEq(Cat, "general")
  /\ Utype # NULL
  /\ StrCaseEq(Utype, <<"s","o","f","t","k","e","y","s","e","t">>)

\* [general], a section without type, one that fails its minimum, or a
\* softkey set, which touches neither devices nor lines: the loop moves on
OtherSection ==
  /\ InLoop
  /\ ~IsDeviceSection /\ ~IsLineSection
  /\ softKeySetConfig' = IF IsSoftKeySetSection
                         THEN sccp_config_softKeySet(softKeySetConfig,
                                                     ast_variable_browse(cfg, Cat), Cat)
                         ELSE softKeySetConfig
  /\ rd' = [rd EXCEPT !.cat = @ + 1, !.steps = Append(@, Cat)]
  /\ UNCHANGED <<cfg, globals, devices, lines, pass, call, passes, pc, locks, thr>>

\* d = sccp_device_find_byid(cat, FALSE): an existing device loses its
\* pendingDelete mark at once, an unknown one is created
DeviceOfSection ==
  IF Cat \in DOMAIN devices
  THEN [devices[Cat] EXCEPT !["pendingDelete"] = 0]
  ELSE sccp_device_create(Cat)

\* l = sccp_line_find_byname_wo(cat, FALSE), created when unknown
LineOfSection == IF Cat \in DOMAIN lines THEN lines[Cat] ELSE sccp_line_create(Cat)

\* a device section: find or create the device, build it, restore its
\* feature status
DeviceSection(u) ==
  /\ InLoop /\ IsDeviceSection
  /\ \E v \in {ast_variable_browse(cfg, Cat)}, d \in {DeviceOfSection} :
       \E r \in {sccp_config_buildDevice(d, v, cfg, u)} :
         /\ devices' = [id \in DOMAIN devices \cup {Cat} |->
                          IF id = Cat THEN sccp_config_restoreDeviceFeatureStatus(r.obj)
                          ELSE devices[id]]
         /\ pass' = PassRecord(SCCP_CONFIG_DEVICE_SEGMENT, v, d, r.pass, r.reset)
         /\ rd' = [rd EXCEPT !.cat = @ + 1, !.built = @ \cup {Cat}, !.steps = Append(@, Cat),
                             !.changedReset = IF ResetChanges(r.pass, SCCP_CONFIG_DEVICE_SEGMENT) # {}
                                              THEN @ \cup {Cat} ELSE @]
  /\ UNCHANGED <<cfg, globals, lines, call, passes, pc, softKeySetConfig, locks, thr>>

\* a line section: find or create the line, build it, register a new one
LineSection(u) ==
  /\ InLoop /\ IsLineSection
  /\ \E v \in {ast_variable_browse(cfg, Cat)}, l \in {LineOfSection} :
       \E r \in {sccp_config_buildLine(l, v, cfg, u)} :
         /\ lines' = [id \in DOMAIN lines \cup {Cat} |-> IF id = Cat THEN r.obj ELSE lines[id]]
         /\ pass' = PassRecord(SCCP_CONFIG_LINE_SEGMENT, v, l, r.pass, r.reset)
         /\ rd' = [rd EXCEPT !.cat = @ + 1, !.built = @ \cup {Cat}, !.steps = Append(@, Cat)]
  /\ UNCHANGED <<cfg, globals, devices, call, passes, pc, softKeySetConfig, locks, thr>>

\* after the loop: a pending global update reaches every device that is
\* neither pendingDelete nor pendingUpdate
Propagate ==
  /\ pc = "sections" /\ rd.cat > Len(cfg)
  /\ IF globals["pendingUpdate"] # 0
     THEN /\ devices' = UpdateDevices(devices)
          /\ globals' = [globals EXCEPT !["pendingUpdate"] = 0]
     ELSE UNCHANGED <<devices, globals>>
  /\ rd' = [rd EXCEPT !.steps = Append(@, "pendingUpdate"),
                      !.globalUpdate = globals["pendingUpdate"], !.beforeUpdate = devices]
  /\ pc' = "post"
  /\ UNCHANGED <<cfg, lines, pass, call, passes, softKeySetConfig, locks, thr>>

\* the post-reload hooks of a reload, lines first; the function returns
PostReload ==
  /\ pc = "post"
  /\ IF rd.readingtype = SCCP_CONFIG_READRELOAD
     THEN /\ lines' = post_reload(lines)
          /\ devices' = post_reload(devices)
          /\ rd' = [rd EXCEPT !.steps = @ \o PostReloadHooks]
     ELSE UNCHANGED <<devices, lines, rd>>
  /\ pc' = "idle"
  /\ UNCHANGED <<cfg, globals, pass, call, passes, softKeySetConfig, locks, thr>>

NextReload ==
  \/ \E config \in ConfigPool : Reload(config)
  \/ \E u \in Oracle({DeviceId}) : General(u)
  \/ PreReload
  \/ OtherSection
  \/ \E u \in CallOracle : DeviceSection(u)
  \/ \E u \in Oracle(RefIds) : LineSection(u)
  \/ Propagate
  \/ PostReload

SpecReload == InitReload /\ [][NextReload]_vars

\* ------------------------- sccp_config_readDevicesLines called on its own
\* sccp_config_getConfig leaves GLOB(cfg) at what pbx_config_load returned,
\* a config or NULL, and sccp_config_readDevicesLines(SCCP_CONFIG_READRELOAD)
\* is entered with it
ReloadDevicesLines(config) ==
  /\ pc = "idle"
  /\ passes < MaxPasses
  /\ cfg' = config
  /\ pc' = "pre"
  /\ rd' = [NoLoad EXCEPT !.readingtype = SCCP_CONFIG_READRELOAD, !.unchanged = (config = cfg)]
  /\ passes' = passes + 1
  /\ UNCHANGED <<globals, devices, lines, pass, call, softKeySetConfig, locks, thr>>

NextLines ==
  \/ \E config \in ConfigPool \cup {NoConfig} : ReloadDevicesLines(config)
  \/ \E u \in Oracle({DeviceId}) : General(u)
  \/ PreReload
  \/ OtherSection
  \/ \E u \in CallOracle : DeviceSection(u)
  \/ \E u \in Oracle(RefIds) : LineSection(u)
  \/ Propagate
  \/ PostReload

SpecLines == InitReload /\ [][NextLines]_vars

\* ----------------------------------------------- properties of a reload
\* the devices that were registered when the reload began, were marked by
\* the pre-reload step and have had their section built
ReloadedDevices ==
  IF rd.readingtype = SCCP_CONFIG_READRELOAD
  THEN (rd.marked \cap rd.built) \cap DOMAIN devices
  ELSE {}

\* the number of lines named name in the section of category
SectionCount(category, name) ==
  Cardinality({k \in 1..Len(ast_variable_browse(cfg, category)) :
                 NameCaseEq(ast_variable_browse(cfg, category)[k].name, name)})

\* C2: when a reload reaches its post-reload hooks, every device that
\* existed, was marked pendingDelete and whose section changed an option
\* marked SCCP_CONFIG_NEEDDEVICERESET has pendingUpdate = 1 and
\* pendingDelete = 0; and a device build whose section changed no such
\* option leaves pendingUpdate as it found it
C2_ResetChangeMarksUpdate ==
  /\ pc = "post" =>
       \A id \in ReloadedDevices \cap rd.changedReset :
         /\ devices[id]["pendingUpdate"] = 1
         /\ devices[id]["pendingDelete"] = 0
  /\ (pass.segment = SCCP_CONFIG_DEVICE_SEGMENT
      /\ ResetChanges(pass, SCCP_CONFIG_DEVICE_SEGMENT) = {})
     => pass.after["pendingUpdate"] = pass.before["pendingUpdate"]

\* C3: in a reload of an unchanged sccp.conf, a device that existed holds,
\* once its section is built, one addon per addon line, one permit host per
\* permithost line and one variable per setvar line of its section
C3_ListsDoNotGrow ==
  (rd.unchanged /\ pc \in {"sections", "post", "idle"}) =>
    \A id \in ReloadedDevices :
      /\ Len(devices[id]["addons"]) = SectionCount(id, "addon")
      /\ Len(devices[id]["permithosts"]) = SectionCount(id, "permithost")
      /\ Len(devices[id]["variables"]) = SectionCount(id, "setvar")


\* ----------------------------------------------------- device button lists
\* (name, value) pairs of a device section that configures buttons
ButtonPairPool ==
  << Pair("button", <<"l","i","n","e",",","L","1">>),
     Pair("button", <<"l","i","n","e",",","L","2">>),
     Pair("button", <<"b","o","g","u","s",",","L","1">>),
     Pair("description", <<"a","b","c">>) >>

\* arguments of direct sccp_config_addButton calls
ButtonTypePool == {LINE, SPEEDDIAL}
ButtonNamePool == {<<"L","1">>, <<"L","1","@","7">>}
ButtonOptionPool == {NULL, <<"a">>, <<"b">>}

\* the record kept of a direct sccp_config_addButton call; found is the
\* position of the entry the traversal stopped at (0: a new entry was made)
ButtonRecord(type, name, options, before, r) ==
  [segment |-> "addButton", type |-> type, label |-> name, options |-> options,
   ret |-> r.changes, before |-> before, after |-> r.list,
   found |-> FindReplaceable(before, type, name)]

\* sccp_device_pre_reload on one device's button list: every button is
\* marked for deletion until its button line is read again
button_pre_reload(list) ==
  [i \in DOMAIN list |-> [list[i] EXCEPT !.pendingDelete = 1, !.pendingUpdate = 0]]

\* sccp_config_addButton(&d->buttonconfig, 0, type, name, options, NULL)
AddButton(type, name, options) ==
  /\ passes < MaxCalls
  /\ \E r \in {sccp_config_addButton(devices[DeviceId]["buttonconfig"], 0, type, name,
                                       options, NULL)} :
       /\ devices' = [devices EXCEPT ![DeviceId]["buttonconfig"] = r.list]
       /\ call' = ButtonRecord(type, name, options, devices[DeviceId]["buttonconfig"], r)
  /\ passes' = passes + 1
  /\ UNCHANGED <<cfg, globals, lines, pass, pc, rd, softKeySetConfig, locks, thr>>

\* a reload starts: the device and its buttons are marked
DevicePreReload ==
  /\ passes > 0
  /\ thr["reload"] = Outside
  /\ locks["buttonconfig"] = "free"
  /\ devices[DeviceId]["pendingDelete"] = 0
  /\ devices' = [id \in DOMAIN devices |->
                   [pre_reload(devices)[id] EXCEPT
                      !["buttonconfig"] = button_pre_reload(@)]]
  /\ UNCHANGED <<cfg, globals, lines, pass, call, passes, pc, rd, softKeySetConfig, locks, thr>>

NextButton ==
  \/ \E v \in Sections(ButtonPairPool), u \in Oracle({DeviceId}) : BuildDevice(v, u)
  \/ \E type \in ButtonTypePool, name \in ButtonNamePool, options \in ButtonOptionPool :
       AddButton(type, name, options)
  \/ DevicePreReload

SpecButton == InitApply /\ [][NextButton]_vars

\* ------------------------------------------- properties of a button list
\* the entry a direct sccp_config_addButton call was merged onto
Merged == call.before[call.found]
\* the registration id the call's name is composed of
MergedId == sccp_parseComposedId(call.label)
\* the call is for a line button and met an entry of the same type, label,
\* line name and subscription id
LineMerge ==
  /\ call.segment = "addButton"
  /\ call.type = LINE
  /\ call.found # 0
  /\ Merged.type = LINE
  /\ Merged.label = call.label
  /\ Merged.name = MergedId.mainId
  /\ Merged.subNumber = MergedId.number
  /\ Merged.subName = MergedId.name

\* C12: a line button merged onto an entry that is identical to it, options
\* included, yields SCCP_CONFIG_CHANGE_NOCHANGE; one that differs from the
\* entry in its options only yields SCCP_CONFIG_CHANGE_CHANGED and the
\* entry holds the new options afterwards
C12_LineMergeRule ==
  (LineMerge /\ call.options # NULL) =>
    IF Merged.options = call.options
    THEN call.ret = SCCP_CONFIG_CHANGE_NOCHANGE
    ELSE /\ call.ret = SCCP_CONFIG_CHANGE_CHANGED
         /\ call.after[call.found].options = call.options

\* the device's button list
ButtonList == devices[DeviceId]["buttonconfig"]

\* C13: the button list of the device is keyed by position index: no two of
\* its entries carry the same index, so a button line never adds a second
\* entry with an index the list already holds
C13_ListKeyedByIndex ==
  \A i, j \in 1..Len(ButtonList) :
    i # j => ButtonList[i].index # ButtonList[j].index

\* the k-th pair of the last pass is a button line whose type token is none
\* of sccp_buttontypes
UnknownButton(k) ==
  /\ NameCaseEq(pass.v[k].name, "button")
  /\ \A i \in 1..Len(sccp_buttontypes) :
       ~StrCaseEq(strsep(pass.v[k].value, ",").tok, sccp_buttontypes[i].text)

\* what sccp_config_object_setValue makes of the k-th pair of the last pass
\* (no option of these sections has a converter that reads the oracle)
PairOutcome(k) ==
  sccp_config_object_setValue(pass.log[k].before, pass.v[k].name, pass.v[k].value,
                              pass.segment, [same |-> FALSE, junk |-> 0, refid |-> DeviceId])

\* C14: a button line with an unknown type token leaves the device, its
\* button list included, as it was; the pass still hands every pair of the
\* section to sccp_config_object_setValue in order, the pairs after the
\* button line take effect, and default resolution runs
C14_UnknownButtonTypeSkipped ==
  (PassRan /\ pass.segment = SCCP_CONFIG_DEVICE_SEGMENT) =>
    /\ Len(pass.log) = Len(pass.v)
    /\ \A k \in 1..Len(pass.v) :
         /\ pass.log[k].name = pass.v[k].name
         /\ pass.log[k].value = pass.v[k].value
         /\ k > 1 => pass.log[k].before = pass.log[k - 1].after
         /\ UnknownButton(k) =>
              /\ pass.log[k].after = pass.log[k].before
              /\ pass.log[k].ret = SCCP_CONFIG_NOUPDATENEEDED
         /\ (\E j \in 1..(k - 1) : UnknownButton(j)) =>
              pass.log[k].after = PairOutcome(k).obj
    /\ (\E k \in 1..Len(pass.v) : UnknownButton(k)) => Len(pass.defaults) > 0

\* a pass over a device that holds a button met a button line of unknown
\* type followed by a pair that changed the device
C14_Witness ==
  /\ PassRan
  /\ pass.segment = SCCP_CONFIG_DEVICE_SEGMENT
  /\ \E k \in 1..(Len(pass.v) - 1) :
       /\ UnknownButton(k)
       /\ pass.log[k].before["buttonconfig"] # <<>>
       /\ pass.log[k + 1].after # pass.log[k + 1].before

\* ------------------------------------------- properties of the section loop
\* the value of a key of category cat, empty when the key is missing
KeyOf(cat, key) ==
  LET value == pbx_variable_retrieve(cfg, cat, key)
  IN  IF value = NULL THEN <<>> ELSE value

\* C18: every device or line the loop of sccp_config_readDevicesLines built
\* comes from a section that holds its minimum: type device with a
\* devicetype, or type line with a label, a cid_name and a cid_num
C18_MinimumKeysRequired ==
  \A cat \in rd.built :
    \/ /\ StrCaseEq(KeyOf(cat, "type"), <<"d","e","v","i","c","e">>)
       /\ KeyOf(cat, "devicetype") # <<>>
    \/ /\ StrCaseEq(KeyOf(cat, "type"), <<"l","i","n","e">>)
       /\ KeyOf(cat, "label") # <<>>
       /\ KeyOf(cat, "cid_name") # <<>>
       /\ KeyOf(cat, "cid_num") # <<>>

\* the device or line registered under id
Registered(id) == IF id \in DOMAIN devices THEN devices[id] ELSE lines[id]

\* the section loop of a reload is over and the post-reload hooks have not
\* run yet
LoopOfReloadDone ==
  /\ rd.readingtype = SCCP_CONFIG_READRELOAD
  /\ \/ pc = "sections" /\ rd.cat > Len(cfg)
     \/ pc = "post"

\* C19: when the section loop of a reload is over, every device and line
\* the loop built has pendingDelete = 0, and every device and line that was
\* marked when the reload started and that the loop did not build still has
\* pendingDelete = 1 when the post-reload hooks run
C19_PendingDeleteAfterLoop ==
  LoopOfReloadDone =>
    /\ \A id \in rd.built : Registered(id)["pendingDelete"] = 0
    /\ \A id \in rd.marked \ rd.built :
         /\ id \in DOMAIN devices \cup DOMAIN lines
         /\ Registered(id)["pendingDelete"] = 1

\* the loop of a reload is over: it built an object that was marked when
\* the reload started and found no section for another marked one
C19_Witness ==
  /\ LoopOfReloadDone
  /\ pc = "post"
  /\ rd.marked \cap rd.built # {}
  /\ rd.marked \ rd.built # {}

\* ------------------------------------------------- loads of softkey sets
\* a label list longer than a key-mode array: hold, fifteen unknown labels,
\* redial
MoreLabels == StationMaxSoftKeySetDefinition - 1
ManyLabels ==
  <<"h","o","l","d">> \o
  [k \in 1..(2 * MoreLabels) |-> IF k % 2 = 1 THEN "," ELSE "x"] \o
  <<",","r","e","d","i","a","l">>

\* (name, value) pairs a softkeyset section is made of
SoftKeyPairPool ==
  << Pair("type", <<"s","o","f","t","k","e","y","s","e","t">>),
     Pair("onhook", <<"r","e","d","i","a","l",",","n","e","w","c","a","l","l">>),
     Pair("OnHook", <<"h","o","l","d">>),
     Pair("connected", <<"h","o","l","d",",","e","n","d","c","a","l","l",",","x">>),
     Pair("offhook", ManyLabels) >>

\* the names of the softkeyset sections
SoftKeySetNames == {"sk1", "SK1", "sk2"}

\* the record kept of a sccp_config_softKeySet call
SoftKeySetRecord(variable, name, before, after) ==
  [segment |-> "softKeySet", name |-> name, v |-> variable, before |-> before, after |-> after]

\* sccp_config_softKeySet(variable, name)
SoftKeySet(variable, name) ==
  /\ passes < MaxCalls
  /\ \E list \in {sccp_config_softKeySet(softKeySetConfig, variable, name)} :
       /\ softKeySetConfig' = list
       /\ call' = SoftKeySetRecord(variable, name, softKeySetConfig, list)
  /\ passes' = passes + 1
  /\ UNCHANGED <<cfg, globals, devices, lines, pass, pc, rd, locks, thr>>

NextSoftKey ==
  \E variable \in Sections(SoftKeyPairPool), name \in SoftKeySetNames : SoftKeySet(variable, name)

SpecSoftKey == InitApply /\ [][NextSoftKey]_vars

\* ------------------------------------------- properties of softkey sets
\* the positions of list that hold a set named name
NamedSets(list, name) == {i \in 1..Len(list) : NameCaseEq(list[i].name, name)}

\* the last call was for a name the list already held
SoftKeySetUpdated == call.segment = "softKeySet" /\ NamedSets(call.before, call.name) # {}

\* the key modes the variables of the last call name
ModesNamed == {KeyModeOf(call.v[k].name) : k \in 1..Len(call.v)}

RECURSIVE LabelsOf(_)
LabelsOf(data) ==
  IF \A k \in 1..Len(data) : data[k] # "," THEN <<data>>
  ELSE LET k == CHOOSE c \in 1..Len(data) :
                  data[c] = "," /\ \A b \in 1..(c - 1) : data[b] # ","
       IN <<SubSeq(data, 1, k - 1)>> \o LabelsOf(SubSeq(data, k + 1, Len(data)))

\* the label id the template gives a label name, the empty one for a name
\* the template does not hold
LabelIdOf(label) ==
  IF \E t \in 1..Len(softKeyTemplate) : StrCaseEq(softKeyTemplate[t].configVar, label)
  THEN softKeyTemplate[CHOOSE t \in 1..Len(softKeyTemplate) :
                         StrCaseEq(softKeyTemplate[t].configVar, label)].softkey
  ELSE SKINNY_LBL_EMPTY

\* variable k of the last call is the last one of the call that names its
\* key mode
LastForMode(k) ==
  /\ KeyModeOf(call.v[k].name) # -1
  /\ \A n \in (k + 1)..Len(call.v) : KeyModeOf(call.v[n].name) # KeyModeOf(call.v[k].name)

\* the key-mode array the last call parsed variable k into
ArrayOf(k) ==
  LET i == CHOOSE n \in NamedSets(call.after, call.name) : TRUE
      m == CHOOSE n \in DOMAIN SoftKeyModes : SoftKeyModes[n] = KeyModeOf(call.v[k].name)
  IN call.after[i].modes[m]

Buttons == devices[DeviceId]["buttonconfig"]

\* the reloading thread enters sccp_config_addButton(&d->buttonconfig, 0,
\* type, name, options, NULL) and takes the lock of the list
AddButtonLock(type, name, options) ==
  /\ passes < MaxCalls
  /\ thr["reload"] = Outside
  /\ locks["buttonconfig"] = "free"
  /\ locks' = [locks EXCEPT !["buttonconfig"] = "reload"]
  /\ thr' = [thr EXCEPT !["reload"] =
               [pc |-> "locked", type |-> type, name |-> name, options |-> options]]
  /\ passes' = passes + 1
  /\ UNCHANGED <<cfg, globals, devices, lines, pass, call, pc, rd, softKeySetConfig>>

\* under the lock: the traversal, and the entry linked or taken off its mark
AddButtonLink ==
  /\ thr["reload"].pc = "locked"
  /\ \E r \in {ButtonLink(Buttons, 0, thr["reload"].type, thr["reload"].name)} :
       /\ devices' = [devices EXCEPT ![DeviceId]["buttonconfig"] = r.list]
       /\ thr' = [thr EXCEPT !["reload"] =
                    [pc |-> "linked", type |-> @.type, name |-> @.name, options |-> @.options,
                     pos |-> r.pos, changes |-> r.changes]]
  /\ UNCHANGED <<cfg, globals, lines, pass, call, passes, pc, rd, softKeySetConfig, locks>>

\* SCCP_LIST_UNLOCK(buttonconfigList)
AddButtonUnlock ==
  /\ thr["reload"].pc = "linked"
  /\ locks' = [locks EXCEPT !["buttonconfig"] = "free"]
  /\ thr' = [thr EXCEPT !["reload"].pc = "type"]
  /\ UNCHANGED <<cfg, globals, devices, lines, pass, call, passes, pc, rd, softKeySetConfig>>

\* what the switch (type) makes of the entry the thread works on
ButtonTarget ==
  ButtonFill(Buttons[thr["reload"].pos], thr["reload"].type, thr["reload"].name,
             thr["reload"].options, NULL, thr["reload"].changes)

\* the switch (type): the comparison with the entry, which ends the call
\* when the entry holds the button already, or else config->type = type,
\* which ends the call for an EMPTY button
StoreType ==
  /\ thr["reload"].pc = "type"
  /\ \E r \in {ButtonTarget} :
       IF r.changes = SCCP_CONFIG_CHANGE_NOCHANGE /\ r.config = Buttons[thr["reload"].pos]
       THEN /\ thr' = [thr EXCEPT !["reload"] = Outside]
            /\ UNCHANGED devices
       ELSE /\ devices' = [devices EXCEPT
                             ![DeviceId]["buttonconfig"][thr["reload"].pos].type = r.config.type]
            /\ thr' = [thr EXCEPT !["reload"] =
                         IF r.config.type = EMPTY THEN Outside
                         ELSE [pc |-> "label", pos |-> @.pos, target |-> r.config]]
  /\ UNCHANGED <<cfg, globals, lines, pass, call, passes, pc, rd, softKeySetConfig, locks>>

\* sccp_copy_string(config->label, name, sizeof(config->label))
StoreLabel ==
  /\ thr["reload"].pc = "label"
  /\ devices' = [devices EXCEPT
                   ![DeviceId]["buttonconfig"][thr["reload"].pos].label = thr["reload"].target.label]
  /\ thr' = [thr EXCEPT !["reload"].pc = "data"]
  /\ UNCHANGED <<cfg, globals, lines, pass, call, passes, pc, rd, softKeySetConfig, locks>>

\* the copies to config->button.line, .speeddial, .service or .feature, and
\* the return
StoreData ==
  /\ thr["reload"].pc = "data"
  /\ devices' = [devices EXCEPT
                   ![DeviceId]["buttonconfig"][thr["reload"].pos] = thr["reload"].target]
  /\ thr' = [thr EXCEPT !["reload"] = Outside]
  /\ UNCHANGED <<cfg, globals, lines, pass, call, passes, pc, rd, softKeySetConfig, locks>>

\* the list a list lock guards
ListOf(l) ==
  IF l = "mailboxes" THEN lines[LineId][l] ELSE devices[DeviceId][l]

\* another thread takes the lock of list l to traverse it
ReaderLock(l) ==
  /\ thr["reader"] = Outside
  /\ locks[l] = "free"
  /\ locks' = [locks EXCEPT ![l] = "reader"]
  /\ thr' = [thr EXCEPT !["reader"] =
               [pc |-> "reading", list |-> l, held |-> ListOf(l), seen |-> <<>>]]
  /\ UNCHANGED <<cfg, globals, devices, lines, pass, call, passes, pc, rd, softKeySetConfig>>

\* SCCP_LIST_TRAVERSE: the reader reads the next entry
ReaderNext ==
  /\ thr["reader"].pc = "reading"
  /\ Len(thr["reader"].seen) < Len(ListOf(thr["reader"].list))
  /\ thr' = [thr EXCEPT !["reader"].seen = Append(@, ListOf(thr["reader"].list)[Len(@) + 1])]
  /\ UNCHANGED <<cfg, globals, devices, lines, pass, call, passes, pc, rd, softKeySetConfig, locks>>

\* the traversal is over and the reader releases the lock
ReaderUnlock ==
  /\ thr["reader"].pc = "reading"
  /\ Len(thr["reader"].seen) >= Len(ListOf(thr["reader"].list))
  /\ locks' = [locks EXCEPT ![thr["reader"].list] = "free"]
  /\ thr' = [thr EXCEPT !["reader"] = Outside]
  /\ UNCHANGED <<cfg, globals, devices, lines, pass, call, passes, pc, rd, softKeySetConfig>>

NextButtonLock ==
  \/ \E type \in ButtonTypePool, name \in ButtonNamePool, options \in ButtonOptionPool :
       AddButtonLock(type, name, options)
  \/ AddButtonLink
  \/ AddButtonUnlock
  \/ StoreType
  \/ StoreLabel
  \/ StoreData
  \/ DevicePreReload
  \/ ReaderLock("buttonconfig")
  \/ ReaderNext
  \/ ReaderUnlock

SpecButtonLock == InitApply /\ [][NextButtonLock]_vars

\* C22: while a reader holds the lock of the button list, every entry it
\* has read is still what it read: no field of an entry linked into the
\* list is written while the reloading thread does not hold the lock
C22_ReaderSeesWrittenEntries ==
  locks["buttonconfig"] = "reader" =>
    \A i \in 1..Len(thr["reader"].seen) : thr["reader"].seen[i] = Buttons[i]

\* ------------------- readers of the addon, permit-host and mailbox lists
\* (name, value) pairs whose converters work on a list
ListPairPool ==
  << Pair("addon", <<"7","9","1","4">>),
     Pair("permithost", <<"h","1">>),
     Pair("mailbox", <<"1","0","0","@","d">>),
     Pair("mailbox", <<"1","0","1">>) >>

\* the list the converter of an option works on, and the object it is in
ListOfPair(pair) ==
  CASE NameCaseEq(pair.name, "addon") -> "addons"
    [] NameCaseEq(pair.name, "permithost") -> "permithosts"
    [] OTHER -> "mailboxes"

\* the reloading thread enters sccp_config_object_setValue with a pair of a
\* list option and reaches the call of the converter
ConverterEnter(pair) ==
  /\ passes < MaxCalls
  /\ thr["reload"] = Outside
  /\ thr' = [thr EXCEPT !["reload"] =
               [pc |-> IF ListOfPair(pair) = "mailboxes" THEN "traverse" ELSE "insert",
                list |-> ListOfPair(pair), pair |-> pair]]
  /\ passes' = passes + 1
  /\ UNCHANGED <<cfg, globals, devices, lines, pass, call, pc, rd, softKeySetConfig, locks>>

\* sccp_config_parse_mailbox: SCCP_LIST_TRAVERSE(mailboxList, mailbox, list)
ConverterTraverse ==
  /\ thr["reload"].pc = "traverse"
  /\ thr["reload"].list = "mailboxes"
  /\ thr' = [thr EXCEPT !["reload"].pc = "insert"]
  /\ UNCHANGED <<cfg, globals, devices, lines, pass, call, passes, pc, rd, softKeySetConfig, locks>>

\* SCCP_LIST_INSERT_HEAD or SCCP_LIST_INSERT_TAIL of the converter, and the
\* return through sccp_config_object_setValue
ConverterInsert(u) ==
  /\ thr["reload"].pc = "insert"
  /\ thr["reload"].list \in {"addons", "permithosts", "mailboxes"}
  /\ IF thr["reload"].list = "mailboxes"
     THEN /\ \E r \in {sccp_config_object_setValue(lines[LineId], thr["reload"].pair.name,
                           thr["reload"].pair.value, SCCP_CONFIG_LINE_SEGMENT, u)} :
               /\ lines' = [lines EXCEPT ![LineId] = r.obj]
               /\ call' = CallRecord(SCCP_CONFIG_LINE_SEGMENT, thr["reload"].pair,
                                     lines[LineId], r, FALSE)
          /\ UNCHANGED devices
     ELSE /\ \E r \in {sccp_config_object_setValue(devices[DeviceId], thr["reload"].pair.name,
                           thr["reload"].pair.value, SCCP_CONFIG_DEVICE_SEGMENT, u)} :
               /\ devices' = [devices EXCEPT ![DeviceId] = r.obj]
               /\ call' = CallRecord(SCCP_CONFIG_DEVICE_SEGMENT, thr["reload"].pair,
                                     devices[DeviceId], r, FALSE)
          /\ UNCHANGED lines
  /\ thr' = [thr EXCEPT !["reload"] = Outside]
  /\ UNCHANGED <<cfg, globals, pass, passes, pc, rd, softKeySetConfig, locks>>

NextListLock ==
  \/ \E k \in 1..Len(ListPairPool) : ConverterEnter(ListPairPool[k])
  \/ ConverterTraverse
  \/ \E u \in CallOracle : ConverterInsert(u)
  \/ \E l \in {"addons", "permithosts", "mailboxes"} : ReaderLock(l)
  \/ ReaderNext
  \/ ReaderUnlock

SpecListLock == InitApply /\ [][NextListLock]_vars

\* C23: while the reloading thread is at the traversal or the insertion of
\* a converter it holds the lock of the list the converter works on, and
\* while a reader holds the lock of a list the list is the one the reader
\* locked
C23_ListMutationsLocked ==
  /\ thr["reload"].pc \in {"traverse", "insert"} => locks[thr["reload"].list] = "reload"
  /\ thr["reader"].pc = "reading" => ListOf(thr["reader"].list) = thr["reader"].held

\* ----------------------------------------------- registrations of a device
\* the highest version a device announces here
MaxVersion == 21

\* a device of a protocol family registers and announces its version
Register(version, type) ==
  /\ passes < MaxCalls
  /\ call.segment # "register"
  /\ call' = [segment |-> "register", version |-> version, type |-> type, protocol |-> <<>>]
  /\ passes' = passes + 1
  /\ UNCHANGED <<cfg, globals, devices, lines, pass, pc, rd, softKeySetConfig, locks, thr>>

\* the registration asks sccp_protocol_getDeviceProtocol(device, type) for
\* the descriptor of the device
GetDeviceProtocol ==
  /\ call.segment = "register"
  /\ call' = [call EXCEPT !.segment = "protocol",
                          !.protocol = sccp_protocol_getDeviceProtocol(call.version, call.type)]
  /\ UNCHANGED <<cfg, globals, devices, lines, pass, passes, pc, rd, softKeySetConfig, locks, thr>>

NextProtocol ==
  \/ \E version \in 0..MaxVersion, type \in {SCCP_PROTOCOL, SPCP_PROTOCOL} : Register(version, type)
  \/ GetDeviceProtocol

SpecProtocol == InitApply /\ [][NextProtocol]_vars

\* the versions the descriptors of a family carry
VersionsOf(type) == {ProtocolDefinition(type)[i].version : i \in 1..Len(ProtocolDefinition(type))}

C25_EveryOptionSelectable ==
  CallRan /\ call.segment \in {SCCP_CONFIG_GLOBAL_SEGMENT, SCCP_CONFIG_DEVICE_SEGMENT,
                                SCCP_CONFIG_LINE_SEGMENT} =>
    \A i \in 1..Len(CallTable) :
      NameCaseEq(CallTable[i].name, call.name) => call.idx = i

\* ------------------------------- properties of the end of a load
\* the category loop of the load has ended and the post-reload hooks have
\* not run yet
LoopEnded == pc = "post"

\* the devices the propagation of GLOB(pendingUpdate) found neither
\* pendingDelete nor pendingUpdate
Unmarked ==
  {id \in DOMAIN rd.beforeUpdate :
     rd.beforeUpdate[id]["pendingDelete"] = 0 /\ rd.beforeUpdate[id]["pendingUpdate"] = 0}

\* C27: when the category loop ends with GLOB(pendingUpdate) set, every
\* registered device that is neither pendingDelete nor pendingUpdate has
\* pendingUpdate = 1 before the post-reload hooks run and no other device
\* and no other member is touched; when GLOB(pendingUpdate) is not set no
\* device is touched; GLOB(pendingUpdate) is 0 from then on and when the
\* function has returned
C27_GlobalUpdatePropagated ==
  /\ LoopEnded =>
       /\ DOMAIN devices = DOMAIN rd.beforeUpdate
       /\ \A id \in DOMAIN devices :
            devices[id] = IF rd.globalUpdate # 0 /\ id \in Unmarked
                          THEN [rd.beforeUpdate[id] EXCEPT !["pendingUpdate"] = 1]
                          ELSE rd.beforeUpdate[id]
       /\ globals["pendingUpdate"] = 0
  /\ pc = "idle" => globals["pendingUpdate"] = 0

\* the loop of a reload ended with GLOB(pendingUpdate) set and with a
\* device that the propagation marked
C27_Witness ==
  /\ LoopEnded
  /\ rd.readingtype = SCCP_CONFIG_READRELOAD
  /\ rd.globalUpdate # 0
  /\ Unmarked # {}
  /\ \A id \in Unmarked : devices[id]["pendingUpdate"] = 1

\* the names of the hooks, and the positions of rd.steps that hold one
PreHookNames == {"sccp_device_pre_reload", "sccp_line_pre_reload", "sccp_softkey_pre_reload"}
PostHookNames == {"sccp_device_post_reload", "sccp_line_post_reload", "sccp_softkey_post_reload"}
HookSteps(names) == {i \in 1..Len(rd.steps) : rd.steps[i] \in names}

\* C28: in a reload the pre-reload hooks are the first three steps, device,
\* then line, then softkey, in front of every section; the post-reload
\* hooks are the last three steps, line, then device, then softkey, behind
\* every section of the config and behind the propagation of
\* GLOB(pendingUpdate); in an initial load no hook is called
C28_HooksOrdered ==
  /\ rd.readingtype = SCCP_CONFIG_READINITIAL => HookSteps(PreHookNames \cup PostHookNames) = {}
  /\ rd.readingtype = SCCP_CONFIG_READRELOAD /\ rd.steps # <<>> =>
       /\ Len(rd.steps) >= 3
       /\ rd.steps[1] = "sccp_device_pre_reload"
       /\ rd.steps[2] = "sccp_line_pre_reload"
       /\ rd.steps[3] = "sccp_softkey_pre_reload"
       /\ HookSteps(PreHookNames) = 1..3
  /\ HookSteps(PostHookNames) # {} =>
       /\ Len(rd.steps) = 3 + Len(cfg) + 1 + 3
       /\ \A k \in 1..Len(cfg) : rd.steps[3 + k] = cfg[k].name
       /\ rd.steps[3 + Len(cfg) + 1] = "pendingUpdate"
       /\ rd.steps[Len(rd.steps) - 2] = "sccp_line_post_reload"
       /\ rd.steps[Len(rd.steps) - 1] = "sccp_device_post_reload"
       /\ rd.steps[Len(rd.steps)] = "sccp_softkey_post_reload"

\* a reload of a config with a device section and a line section has
\* returned
C28_Witness ==
  /\ pc = "idle"
  /\ rd.readingtype = SCCP_CONFIG_READRELOAD
  /\ HookSteps(PostHookNames) # {}
  /\ rd.built \cap DOMAIN devices # {}
  /\ rd.built \cap DOMAIN lines # {}

\* the objects the pre-reload step of the last invocation marked and that
\* are still registered with the mark
LeftMarked ==
  {id \in rd.marked \cap DOMAIN devices : devices[id]["pendingDelete"] = 1}
    \cup {id \in rd.marked \cap DOMAIN lines : lines[id]["pendingDelete"] = 1}

\* C29: when an invocation of sccp_config_readDevicesLines that called the
\* pre-reload hooks has returned, it has called the three post-reload hooks
\* too, and no object its pre-reload step marked is still registered with
\* pendingDelete set
C29_PreHooksPaired ==
  pc = "idle" /\ HookSteps(PreHookNames) # {} =>
    /\ Cardinality(HookSteps(PostHookNames)) = Len(PostReloadHooks)
    /\ LeftMarked = {}

\* ------------------------------------- properties of a newly added button
\* the k-th pair of the last pass appended a line button to the device's
\* list: a valid button line that met no pending-delete entry to replace
AddsLineButton(k) ==
  /\ NameCaseEq(pass.v[k].name, "button")
  /\ Len(pass.log[k].after["buttonconfig"]) = Len(pass.log[k].before["buttonconfig"]) + 1
  /\ pass.log[k].after["buttonconfig"][Len(pass.log[k].after["buttonconfig"])].type = LINE

\* a direct sccp_config_addButton call with a valid button that made a new
\* entry
AddsNewButton ==
  /\ call.segment = "addButton"
  /\ call.found = 0
  /\ ~sccp_strlen_zero(call.label)
  /\ (call.type = LINE \/ call.options # NULL)

\* C30: a valid button that the device's list holds no pending-delete
\* entry for is reported by sccp_config_addButton as
\* SCCP_CONFIG_CHANGE_CHANGED, and a device pass of a reload that reads
\* such a button line gets SCCP_CONFIG_NEEDDEVICERESET from the pair and is
\* classified as needing a device reset
C30_NewButtonReported ==
  /\ AddsNewButton => call.ret = SCCP_CONFIG_CHANGE_CHANGED
  /\ (PassRan /\ pass.segment = SCCP_CONFIG_DEVICE_SEGMENT /\ pass.before["pendingDelete"] = 1) =>
       \A k \in 1..Len(pass.v) :
         AddsLineButton(k) =>
           /\ pass.log[k].ret = SCCP_CONFIG_NEEDDEVICERESET
           /\ pass.reset
====
